---------------------------- MODULE Spec2Model ----------------------------
(***************************************************************************)
(* Player traversal controller of bbublegum-prince.                        *)
(*                                                                         *)
(* Time is counted in units of 0.05 s: the 0.2 s jump-buffer window of     *)
(* player/movement/components.rs is 4 units, the 0.4 s window of           *)
(* player_movement.rs is 8, the Coyote timer (0.2 s) is 4 and the Landing  *)
(* timer (0.15 s) is 3.  A Timer in TimerMode::Once is its elapsed time,   *)
(* clamped at its duration; it is finished when the two are equal.         *)
(*                                                                         *)
(* Option<f32> is a sequence: None is <<>>, Some(x) is <<x>>.              *)
(***************************************************************************)
EXTENDS Integers, Sequences, FiniteSets, TLC

VARIABLES
    rev,        \* which revision of the Jump component: "components" or "player_movement"
    jump,       \* the player's Jump component
    lastOp,     \* the last Jump method called, its result and the state before it
    chain,      \* forces of the consuming get_jump_force calls since the stage was Single
    chainValid, \* the chain started from jump_stage = Single
    presses,    \* buffer_jump calls since the buffer was last consumed, cleared or expired
    pending,    \* buffer_jump was called and no get_*_force call came after it
    acc,        \* update time accumulated since the last buffer_jump (in the tick
                \* model: 0 once get_jump_force has answered that press)
    grounded,   \* player_movement.rs: the Grounded component (coyote_timer, state)
    linvel,     \* what the systems wrote to Velocity.linvel in this tick, <<x, y, z>>:
                \* None is a component no system wrote, still as the physics step left it
    facing,     \* the direction a system turned the player's Transform to in this
                \* tick (look_at), None if no system did
    touching,   \* the Wall entities the wall sensor intersects
    jumpPressed,\* just_pressed(Jump) during this tick
    todo,       \* the systems that have not run yet in this tick
    tick,       \* the log of this tick: the jump_stage it started with and the
                \* force of the ground jump that handle_jumping executed in it
    player,     \* player/movement: the marker components of the player entity
    cmds,       \* the Commands the systems of this tick have queued
    friction,   \* Friction.coefficient
    gravity,    \* GravityScale
    momentum,   \* what a system set Momentum to in this tick, None if none did
    moved,      \* the displacement (in tenths) a system gave Transform.translation
                \* in this tick, None if none did
    dt,         \* time.delta() of this tick
    drift,      \* Drift.0, in units of 0.5
    seen,       \* the collision events that the last step iterated over: None
                \* unless that step was detect_walls or detect_ledges with a
                \* player matching its query
    grabPressed,\* just_pressed(Grab) during this tick, in a tick in which
                \* handle_ledge_grab reads it
    camera,     \* camera.rs: the CameraController of the main camera
    shot,       \* the input that the last step of camera.rs read (presses,
                \* player translation and momentum, ray result, frame time):
                \* None if that step read none
    speed,      \* locomotion.rs: the PlayerSpeed resource
    since,      \* the frame time of the accelerate calls since the last reset
    moving,     \* Movement.is_moving() in the last handle_player_acceleration
    force,      \* main.rs: the OutsideForce component of the movable entity
    pairs,      \* what rapier's intersections_with reports in this tick for each
                \* wind zone and the movable entity: no pair ("none"), a pair
                \* that does not intersect ("apart") or one that does ("inside")
    player_ideas, \* ideas.rs: the PlayerIdeas resource
    crafted,    \* the last call into ideas.rs: its name (op), the list it was
                \* given (ideas) and what it returned (ret)
    queued,     \* the Commands that handle_wind_zones queued in this tick; in
                \* player/grabbing.rs, those of the grabbing systems
    build,      \* whether the build checks integer overflow ("checked": it
                \* panics) or not ("unchecked": it wraps)
    items_in_range, \* player/grabbing.rs: the ItemsInRange resource
    world,      \* player/grabbing.rs: the components of the player and of the
                \* items that the grabbing systems read and write, the sensor's
                \* contacts and the collision events of this tick
    airPress    \* a Jump press made with neither Grounded nor Coyote on the player
                \* is outstanding: handle_jumping has not called get_jump_force
                \* since, and no later press replaced it

jvars == <<rev, jump, lastOp, chain, chainValid, presses, pending, acc>>

hist == <<lastOp, chain, chainValid, presses, pending, acc>>

tvars == <<grounded, linvel, facing, touching, jumpPressed, todo, tick, seen>>

gvars == <<build, items_in_range, world>>
wvars == <<force, pairs, player_ideas, crafted, queued, gvars>>

ovars == <<camera, shot, speed, since, moving, wvars>>

mvars == <<player, cmds, friction, gravity, momentum, moved, dt, drift, airPress,
          grabPressed, ovars>>

vars == <<jvars, tvars, mvars>>

----------------------------------------------------------------------------
(* Bounds *)

MaxDt == 3       \* the longest frame, in time units
MaxChain == 4    \* how many consecutive jump forces the chain remembers
MaxPress == 3    \* how many buffer_jump calls are counted
MaxFrame == 2    \* the longest frame of the marker-based tick model, in time units
MaxDrift == 1    \* the largest component of Drift, in units of 0.5

(* Program constants, in time units of 0.05 s *)

JumpWindowComponents == 4
JumpWindowPlayerMovement == 8
CoyoteTime == 4
LandingTime == 3

None == <<>>
Some(x) == <<x>>

Min(a, b) == IF a <= b THEN a ELSE b

----------------------------------------------------------------------------
(* bevy Timer, TimerMode::Once *)

TimerTick(elapsed, delta, duration) == Min(elapsed + delta, duration)
TimerFinished(elapsed, duration) == elapsed >= duration

----------------------------------------------------------------------------
(* CameraController and PlayerSpeed as constructed *)

\* Positions are in units of 1/10000, distances and momentum in tenths,
\* directions in thousandths, angles in degrees.
PosUnit == 10000

Fixed(position, look_target) ==
    [tag |-> "Fixed", position |-> position, look_target |-> look_target]
Normal == [tag |-> "Normal", position |-> <<0, 0, 0>>, look_target |-> <<0, 0, 0>>]

CameraDefault ==
    [z_distance |-> 100, y_distance |-> 70, angle |-> 0, easing |-> 4,
     target_position |-> <<0, 0, 0>>, player_position |-> <<0, 0, 0>>,
     mode |-> Fixed(<<0, 40 * PosUnit, -23 * PosUnit>>, <<0, 0, 0>>),
     blocked_by_a_wall |-> FALSE]

\* Speeds are in thousandths; accel_timer is the elapsed time of the
\* 1.5 s Timer, in time units of 0.05 s.
AccelTime == 30

PlayerSpeedDefault ==
    [accel_timer |-> 0, base_speed |-> 7500, current_speed |-> 7500,
     top_speed |-> 15000, min_speed |-> -20000, acceleration |-> 2]

\* Idea derives Ord: Cube < Spring < Wheel < Rope.
Idea == {"Cube", "Spring", "Wheel", "Rope"}
IdeaOrd(i) == CASE i = "Cube" -> 0 [] i = "Spring" -> 1 [] i = "Wheel" -> 2 [] i = "Rope" -> 3

with_ideas(ideas) ==
    [ideas |-> ideas, available_ideas |-> ideas, loaded_ideas |-> <<>>,
     current_index |-> 0]

\* The wind zones of the scene; forces are in thousandths.
Zones == {"zone1", "zone2"}
WindZone(z) == IF z = "zone1" THEN <<4000, 0, 4000>> ELSE <<0, 2000, -4000>>

\* The camera, the speed and idea resources and the wind before the first tick.
\* The items of the scene and the other entity the grab sensor can touch.
Items == {"crate1", "crate2"}
Wall == "wall"

\* ItemsInRange::default()
ItemsInRangeDefault == [items |-> [e \in {} |-> "Light"], closest_item |-> None]

\* The scene before the first tick: the player holds nothing, both items lie
\* in the world with an Item component, a rigid body and a collider, and the
\* grab sensor touches nothing.
WorldDefault ==
    [player |-> [HeldItem |-> None, weights |-> {}, children |-> {}],
     item |-> [e \in Items |->
                 [Item |-> TRUE, RigidBody |-> TRUE, Collider |-> TRUE,
                  parent |-> FALSE, ThrownItem |-> FALSE, translation |-> "world"]],
     contact |-> [e \in Items \cup {Wall} |-> FALSE],
     recorded |-> [e \in Items |-> 0],
     events |-> << >>]

SceneInit ==
    /\ camera = CameraDefault
    /\ shot = None
    /\ speed = PlayerSpeedDefault
    /\ since = 0
    /\ moving = FALSE
    /\ force = None
    /\ pairs = [z \in Zones |-> "none"]
    /\ player_ideas = with_ideas(<<"Cube", "Spring">>)
    /\ queued = <<>>
    /\ items_in_range = ItemsInRangeDefault
    /\ world = WorldDefault

ResourcesInit ==
    /\ SceneInit
    /\ build = "checked"

OthersInit ==
    /\ ResourcesInit
    /\ crafted = [op |-> "with_ideas", ideas |-> <<"Cube", "Spring">>, ret |-> None]

----------------------------------------------------------------------------
(* Jump, player/movement/components.rs *)

JumpDefault ==
    [input_timer |-> 0, jump_stage |-> "Single", jump_buffered |-> FALSE]

reset_jump_stage(j) == [j EXCEPT !.jump_stage = "Single"]

reset_input(j) == [j EXCEPT !.jump_buffered = FALSE, !.input_timer = 0]

reset_input_only(j) == reset_input(j)

reset(j) == reset_input(reset_jump_stage(j))

update(j, delta) ==
    IF j.jump_buffered
    THEN LET t == [j EXCEPT !.input_timer =
                      TimerTick(j.input_timer, delta, JumpWindowComponents)]
         IN  IF TimerFinished(t.input_timer, JumpWindowComponents)
             THEN reset(t)
             ELSE t
    ELSE j

get_jump_force_stuck(j) ==
    IF j.jump_buffered
    THEN LET r == reset_input(j)
         IN  CASE j.jump_stage = "Single" ->
                    [jump |-> [r EXCEPT !.jump_stage = "Double"], ret |-> Some(10)]
               [] j.jump_stage = "Double" ->
                    [jump |-> [r EXCEPT !.jump_stage = "Triple"], ret |-> Some(15)]
               [] j.jump_stage = "Triple" ->
                    [jump |-> r, ret |-> Some(20)]
    ELSE [jump |-> j, ret |-> None]

get_jump_force_keeps_buffer(j) ==
    IF j.jump_buffered
    THEN CASE j.jump_stage = "Single" ->
                [jump |-> [j EXCEPT !.jump_stage = "Double"], ret |-> Some(10)]
           [] j.jump_stage = "Double" ->
                [jump |-> [j EXCEPT !.jump_stage = "Triple"], ret |-> Some(15)]
           [] j.jump_stage = "Triple" ->
                [jump |-> [j EXCEPT !.jump_stage = "Single"], ret |-> Some(20)]
    ELSE [jump |-> j, ret |-> None]

get_jump_force_unguarded(j) ==
    LET r == reset_input(j)
    IN  CASE j.jump_stage = "Single" ->
               [jump |-> [r EXCEPT !.jump_stage = "Double"], ret |-> Some(10)]
          [] j.jump_stage = "Double" ->
               [jump |-> [r EXCEPT !.jump_stage = "Triple"], ret |-> Some(15)]
          [] j.jump_stage = "Triple" ->
               [jump |-> [r EXCEPT !.jump_stage = "Single"], ret |-> Some(20)]

get_jump_force(j) ==
    IF j.jump_buffered
    THEN LET r == reset_input(j)
         IN  CASE j.jump_stage = "Single" ->
                    [jump |-> [r EXCEPT !.jump_stage = "Double"], ret |-> Some(10)]
               [] j.jump_stage = "Double" ->
                    [jump |-> [r EXCEPT !.jump_stage = "Triple"], ret |-> Some(15)]
               [] j.jump_stage = "Triple" ->
                    [jump |-> [r EXCEPT !.jump_stage = "Single"], ret |-> Some(20)]
    ELSE [jump |-> j, ret |-> None]

get_wall_jump_force(j) == [jump |-> reset_input(j), ret |-> 15]

buffer_jump(j) == [j EXCEPT !.jump_buffered = TRUE, !.input_timer = 0]

----------------------------------------------------------------------------
(* Jump, player_movement.rs *)

pm_reset_input(j) == [j EXCEPT !.jump_buffered = FALSE, !.input_timer = 0]

pm_update_never_expires(j, delta) ==
    IF j.jump_buffered
    THEN [j EXCEPT !.input_timer =
             TimerTick(j.input_timer, delta, JumpWindowPlayerMovement)]
    ELSE j

pm_update(j, delta) ==
    IF j.jump_buffered
    THEN LET t == [j EXCEPT !.input_timer =
                      TimerTick(j.input_timer, delta, JumpWindowPlayerMovement)]
         IN  IF TimerFinished(t.input_timer, JumpWindowPlayerMovement)
             THEN [t EXCEPT !.jump_buffered = FALSE]
             ELSE t
    ELSE j

pm_get_jump_force(j) ==
    IF j.jump_buffered
    THEN LET r == pm_reset_input(j)
         IN  CASE j.jump_stage = "Single" ->
                    [jump |-> [r EXCEPT !.jump_stage = "Double"], ret |-> Some(10)]
               [] j.jump_stage = "Double" ->
                    [jump |-> [r EXCEPT !.jump_stage = "Triple"], ret |-> Some(15)]
               [] j.jump_stage = "Triple" ->
                    [jump |-> [r EXCEPT !.jump_stage = "Single"], ret |-> Some(20)]
    ELSE [jump |-> j, ret |-> None]

pm_get_wall_jump_force(j) == [jump |-> pm_reset_input(j), ret |-> 15]

pm_buffer_jump(j) == [j EXCEPT !.jump_buffered = TRUE, !.input_timer = 0]

----------------------------------------------------------------------------
(* The Jump component of either revision, driven method by method *)

JumpWindow == IF rev = "components" THEN JumpWindowComponents
              ELSE JumpWindowPlayerMovement

JumpUpdate(j, delta) ==
    IF rev = "components" THEN update(j, delta) ELSE pm_update(j, delta)

JumpGetForce(j) ==
    IF rev = "components" THEN get_jump_force(j) ELSE pm_get_jump_force(j)

JumpGetWallForce(j) ==
    IF rev = "components" THEN get_wall_jump_force(j) ELSE pm_get_wall_jump_force(j)

JumpBuffer(j) ==
    IF rev = "components" THEN buffer_jump(j) ELSE pm_buffer_jump(j)

Op(name, ret) ==
    [op |-> name, ret |-> ret, pre |-> jump,
     prePresses |-> presses, prePending |-> pending, preAcc |-> acc]

JInit ==
    /\ rev \in {"components", "player_movement"}
    /\ jump = JumpDefault
    /\ lastOp = [op |-> "new", ret |-> None, pre |-> JumpDefault,
                 prePresses |-> 0, prePending |-> FALSE, preAcc |-> 0]
    /\ chain = <<>>
    /\ chainValid = TRUE
    /\ presses = 0
    /\ pending = FALSE
    /\ acc = 0
    /\ grounded = [coyote_timer |-> 0, state |-> [tag |-> "Grounded", normal |-> <<0, 0, 0>>]]
    /\ linvel = <<None, None, None>>
    /\ facing = None
    /\ touching = {}
    /\ jumpPressed = FALSE
    /\ todo = {}
    /\ tick = [stage0 |-> "Single", jumped |-> None]
    /\ seen = None
    /\ player = [Grounded |-> None, Coyote |-> None, Landing |-> None,
                 Walljump |-> None, LedgeGrab |-> None, AddedGrounded |-> FALSE]
    /\ cmds = [ins |-> [m \in {"Grounded", "Coyote", "Landing", "Walljump", "LedgeGrab"} |-> None],
               rem |-> {}]
    /\ friction = 1
    /\ gravity = 1
    /\ momentum = None
    /\ moved = None
    /\ dt = 1
    /\ drift = <<0, 0, 0>>
    /\ airPress = FALSE
    /\ grabPressed = FALSE
    /\ OthersInit

CallBufferJump ==
    /\ jump' = JumpBuffer(jump)
    /\ lastOp' = Op("buffer_jump", None)
    /\ presses' = Min(presses + 1, MaxPress)
    /\ pending' = TRUE
    /\ acc' = 0
    /\ UNCHANGED <<rev, chain, chainValid, tvars, mvars>>

CallUpdate ==
    \E delta \in 1..MaxDt :
        LET j == JumpUpdate(jump, delta)
            expired == jump.jump_buffered /\ ~j.jump_buffered
        IN  /\ jump' = j
            /\ lastOp' = Op("update", None)
            /\ presses' = IF expired THEN 0 ELSE presses
            /\ acc' = IF pending THEN Min(acc + delta, JumpWindow) ELSE acc
            /\ chain' = IF expired THEN <<>> ELSE chain
            /\ chainValid' = IF expired THEN j.jump_stage = "Single" ELSE chainValid
            /\ UNCHANGED <<rev, pending, tvars, mvars>>

CallGetJumpForce ==
    LET r == JumpGetForce(jump)
        full == Len(chain) >= MaxChain
    IN  /\ jump' = r.jump
        /\ lastOp' = Op("get_jump_force", r.ret)
        /\ presses' = 0
        /\ pending' = FALSE
        /\ chain' = IF r.ret = None THEN chain
                    ELSE IF full THEN <<>> ELSE Append(chain, r.ret[1])
        /\ chainValid' = IF r.ret # None /\ full
                         THEN r.jump.jump_stage = "Single" ELSE chainValid
        /\ UNCHANGED <<rev, acc, tvars, mvars>>

CallGetWallJumpForce ==
    LET r == JumpGetWallForce(jump)
    IN  /\ jump' = r.jump
        /\ lastOp' = Op("get_wall_jump_force", Some(r.ret))
        /\ presses' = 0
        /\ pending' = FALSE
        /\ UNCHANGED <<rev, acc, chain, chainValid, tvars, mvars>>

CallResetJumpStage ==
    /\ rev = "components"
    /\ jump' = reset_jump_stage(jump)
    /\ lastOp' = Op("reset_jump_stage", None)
    /\ chain' = <<>>
    /\ chainValid' = TRUE
    /\ UNCHANGED <<rev, presses, pending, acc, tvars, mvars>>

JNext ==
    \/ CallBufferJump
    \/ CallUpdate
    \/ CallGetJumpForce
    \/ CallGetWallJumpForce
    \/ CallResetJumpStage

SpecJump == JInit /\ [][JNext]_vars

----------------------------------------------------------------------------
(* Claims about the Jump component, checked under SpecJump *)

CycleForce(i) == CASE i % 3 = 1 -> 10 [] i % 3 = 2 -> 15 [] OTHER -> 20

StageAfter(s) == CASE s = "Single" -> "Double"
                   [] s = "Double" -> "Triple"
                   [] s = "Triple" -> "Single"

StageForce(s) == CASE s = "Single" -> 10
                   [] s = "Double" -> 15
                   [] s = "Triple" -> 20

\* C1: starting from jump_stage = Single, with no buffer expiry and no
\* reset_jump_stage in between, the consecutive consuming get_jump_force calls
\* return 10, 15, 20 and then 10 again.
C1_JumpStageCycle ==
    chainValid => \A i \in 1..Len(chain) : chain[i] = CycleForce(i)

C1_Witness == chainValid /\ Len(chain) >= 4 /\ chain[4] = 10

\* C2: however many times buffer_jump was called, the first get_jump_force
\* returns a force, advances the stage by one step and leaves nothing buffered;
\* a get_jump_force with no buffer_jump since the last consumption returns None.
C2_SingleJumpPerBuffer ==
    lastOp.op = "get_jump_force" =>
        IF lastOp.prePresses >= 1
        THEN /\ lastOp.ret = Some(StageForce(lastOp.pre.jump_stage))
             /\ jump.jump_stage = StageAfter(lastOp.pre.jump_stage)
             /\ ~jump.jump_buffered
        ELSE lastOp.ret = None

C2_Witness ==
    /\ lastOp.op = "get_jump_force"
    /\ lastOp.prePresses >= 2
    /\ lastOp.ret # None
    /\ ~jump.jump_buffered

\* C3: after buffer_jump, with no get_jump_force in between, the jump is still
\* buffered exactly while the update calls have accumulated less than the
\* window (0.2 s in components.rs, 0.4 s in player_movement.rs), and a
\* get_jump_force after the window has elapsed returns None.
C3_BufferExpiry ==
    /\ pending => (jump.jump_buffered <=> acc < JumpWindow)
    /\ (/\ lastOp.op = "get_jump_force"
        /\ lastOp.prePending
        /\ lastOp.preAcc >= JumpWindow) => lastOp.ret = None

C3_Witness ==
    /\ rev = "player_movement"
    /\ lastOp.op = "get_jump_force"
    /\ lastOp.prePending
    /\ lastOp.preAcc >= JumpWindow
    /\ lastOp.ret = None

\* C4: get_jump_force with no jump buffered returns None and changes neither
\* jump_stage, nor the buffered flag, nor the input timer.
C4_UnbufferedGetIsNoOp ==
    (lastOp.op = "get_jump_force" /\ ~lastOp.pre.jump_buffered) =>
        (lastOp.ret = None /\ jump = lastOp.pre)

C4_Witness ==
    /\ lastOp.op = "get_jump_force"
    /\ ~lastOp.pre.jump_buffered
    /\ lastOp.pre.jump_stage = "Triple"
    /\ lastOp.ret = None

\* C36: in components.rs a buffered press that expires in update returns
\* jump_stage to Single together with the flag and the timer; a
\* get_jump_force that consumes the buffer moves the stage one step along the
\* cycle and get_wall_jump_force leaves it, neither resets it; in
\* player_movement.rs the expiry leaves jump_stage as it was.
C36_ExpiryResetsStage ==
    /\ (lastOp.op = "update" /\ lastOp.pre.jump_buffered /\ ~jump.jump_buffered) =>
          IF rev = "components"
          THEN jump = JumpDefault
          ELSE jump.jump_stage = lastOp.pre.jump_stage
    /\ (lastOp.op = "get_jump_force" /\ lastOp.ret # None) =>
          jump.jump_stage = StageAfter(lastOp.pre.jump_stage)
    /\ lastOp.op = "get_wall_jump_force" => jump.jump_stage = lastOp.pre.jump_stage

\* C36 happens: a press buffered at stage Triple expired in components.rs.
C36_Witness ==
    /\ rev = "components"
    /\ lastOp.op = "update"
    /\ lastOp.pre.jump_buffered /\ lastOp.pre.jump_stage = "Triple"
    /\ jump = JumpDefault

----------------------------------------------------------------------------
(* Vectors, entities, collision events and ray results *)

Zero == <<0, 0, 0>>
Y == <<0, 1, 0>>
VAdd(a, b) == <<a[1] + b[1], a[2] + b[2], a[3] + b[3]>>
VScale(a, k) == <<a[1] * k, a[2] * k, a[3] * k>>

Sensor == "wall_sensor"
Walls == {"wall1", "wall2"}
WallNormal(w) == IF w = "wall1" THEN <<1, 0, 0>> ELSE <<0, 0, -1>>

\* The log of the writes to a vector in one tick: no component written, and
\* the whole vector assigned.
Kept == <<None, None, None>>
Wrote(v) == <<Some(v[1]), Some(v[2]), Some(v[3])>>

Event(kind, a, b, ray) == [kind |-> kind, e1 |-> a, e2 |-> b, ray |-> ray]

\* The wall that a sensor-wall event is about, in either operand order.
SensorWall(e) ==
    IF e.e1 = Sensor /\ e.e2 \in Walls THEN Some(e.e2)
    ELSE IF e.e2 = Sensor /\ e.e1 \in Walls THEN Some(e.e1)
    ELSE None

\* The event one physics step can send for the sensor and wall w while the
\* sensor touches the walls t: the contact starts if there is none and stops if
\* there is one, with the two entities in either order. A Started event carries
\* what cast_ray_and_get_normal returns if the confirming ray is cast for it:
\* None, or the normal of the wall's face.
WallEvents(t, w) ==
    IF w \in t
    THEN {Event("Stopped", Sensor, w, None), Event("Stopped", w, Sensor, None)}
    ELSE {Event("Started", Sensor, w, r) : r \in {None, Some(WallNormal(w))}} \cup
         {Event("Started", w, Sensor, r) : r \in {None, Some(WallNormal(w))}}

\* The player's own collider meets walls too.
BodyEvents ==
    {Event("Started", "player", "wall1", Some(WallNormal("wall1"))),
     Event("Stopped", "wall1", "player", None)}

\* The batch of one tick: one physics step changes each contact at most once,
\* and reports the changes in any order.
Batches(t) ==
    {<<>>}
    \cup {<<e>> : e \in BodyEvents \cup UNION {WallEvents(t, w) : w \in Walls}}
    \cup UNION {{<<e1, e2>> : e1 \in WallEvents(t, w1), e2 \in WallEvents(t, w2)} :
                   <<w1, w2>> \in {p \in Walls \X Walls : p[1] # p[2]}}
    \cup UNION {{<<e1, e2>>, <<e2, e1>>} :
                   <<e1, e2>> \in (UNION {WallEvents(t, w) : w \in Walls}) \X BodyEvents}

Contact(t, e) ==
    LET w == SensorWall(e)
    IN  IF w = None THEN t
        ELSE IF e.kind = "Started" THEN t \cup {w[1]} ELSE t \ {w[1]}

RECURSIVE ContactAfter(_, _)
ContactAfter(t, events) ==
    IF events = <<>> THEN t
    ELSE ContactAfter(Contact(t, Head(events)), Tail(events))

----------------------------------------------------------------------------
(* Grounded and the systems of player_movement.rs *)

State(tag) == [tag |-> tag, normal |-> Zero]
WallSliding(n) == [tag |-> "WallSliding", normal |-> n]

GroundedDefault == [coyote_timer |-> 0, state |-> State("Grounded")]

is_airborne(g) == g.state.tag # "Grounded"
is_grounded(g) == g.state.tag = "Grounded"
is_wall_sliding(g) == g.state.tag = "WallSliding"
can_jump(g) == g.state.tag \in {"Grounded", "Coyote"}
walk_off(g) == [g EXCEPT !.state = State("Falling")]
grounded_jump(g) == [g EXCEPT !.coyote_timer = 0, !.state = State("Rising")]
land(g) == [g EXCEPT !.state = State("Grounded")]

pm_handle_grounded(g, rayHit) ==
    IF rayHit
    THEN IF ~is_grounded(g) THEN land(g) ELSE g
    ELSE IF is_grounded(g) THEN walk_off(g) ELSE g

pm_handle_jumping(g, j, v) ==
    LET r == pm_get_jump_force(j)
    IN  IF can_jump(g)
        THEN IF r.ret # None
             THEN [grounded |-> grounded_jump(g), jump |-> r.jump,
                   linvel |-> [v EXCEPT ![2] = Some(r.ret[1])]]
             ELSE [grounded |-> g, jump |-> r.jump, linvel |-> v]
        ELSE [grounded |-> g, jump |-> j, linvel |-> v]

RECURSIVE pm_detect_walls_events(_, _, _, _)
pm_detect_walls_events(events, can_wallslide, g, v) ==
    IF events = <<>> THEN [grounded |-> g, linvel |-> v]
    ELSE
      LET e == Head(events)
          hit == IF e.e1 = Sensor /\ e.e2 \in Walls /\ can_wallslide THEN Some(e.e2)
                 ELSE IF e.e2 = Sensor /\ e.e1 \in Walls /\ can_wallslide THEN Some(e.e1)
                 ELSE None
          g1 == IF e.kind = "Started"
                THEN IF hit # None /\ e.ray # None
                     THEN [g EXCEPT !.state = WallSliding(e.ray[1])]
                     ELSE g
                ELSE IF \/ e.e1 = Sensor /\ e.e2 \in Walls /\ is_wall_sliding(g)
                        \/ e.e2 = Sensor /\ e.e1 \in Walls /\ is_wall_sliding(g)
                     THEN [g EXCEPT !.state = State("Grounded")]
                     ELSE g
          v1 == IF e.kind = "Started" /\ hit # None /\ e.ray # None
                THEN <<Some(0), v[2], Some(0)>>
                ELSE v
      IN  pm_detect_walls_events(Tail(events), can_wallslide, g1, v1)

pm_detect_walls_any_state(events, g, v) ==
    pm_detect_walls_events(events, ~is_wall_sliding(g), g, v)

pm_detect_walls(events, g, v) ==
    pm_detect_walls_events(events, is_airborne(g) /\ ~is_wall_sliding(g), g, v)

pm_handle_wall_sliding(g, v) ==
    IF is_wall_sliding(g) THEN [v EXCEPT ![2] = Some(-2)] ELSE v

pm_handle_wall_jumping_straight_up(g, j, v, f, pressed) ==
    IF is_wall_sliding(g) /\ pressed
    THEN LET r == pm_get_wall_jump_force(j)
         IN  [grounded |-> [g EXCEPT !.state = State("Rising")],
              jump |-> r.jump,
              linvel |-> Wrote(VScale(Y, r.ret)),
              facing |-> Some(g.state.normal)]
    ELSE [grounded |-> g, jump |-> j, linvel |-> v, facing |-> f]

pm_handle_wall_jumping(g, j, v, f, pressed) ==
    IF is_wall_sliding(g) /\ pressed
    THEN LET r == pm_get_wall_jump_force(j)
         IN  [grounded |-> [g EXCEPT !.state = State("Rising")],
              jump |-> r.jump,
              linvel |-> Wrote(VScale(VAdd(Y, g.state.normal), r.ret)),
              facing |-> Some(g.state.normal)]
    ELSE [grounded |-> g, jump |-> j, linvel |-> v, facing |-> f]

PmSystems == {"handle_grounded", "buffer_jump", "handle_jumping",
              "handle_wall_sliding", "detect_walls", "handle_wall_jumping"}

\* PlayerMovementPlugin::build orders only handle_jumping after buffer_jump.
PmMayRun(sys) ==
    /\ sys \in todo
    /\ sys = "handle_jumping" => "buffer_jump" \notin todo

PmInit ==
    /\ rev = "player_movement"
    /\ jump = JumpDefault
    /\ lastOp = [op |-> "new", ret |-> None, pre |-> JumpDefault,
                 prePresses |-> 0, prePending |-> FALSE, preAcc |-> 0]
    /\ chain = <<>>
    /\ chainValid = TRUE
    /\ presses = 0
    /\ pending = FALSE
    /\ acc = 0
    /\ grounded = GroundedDefault
    /\ linvel = Kept
    /\ facing = None
    /\ touching = {}
    /\ jumpPressed \in BOOLEAN
    /\ todo = PmSystems
    /\ tick = [stage0 |-> "Single", jumped |-> None]
    /\ seen = None
    /\ player = [Grounded |-> None, Coyote |-> None, Landing |-> None,
                 Walljump |-> None, LedgeGrab |-> None, AddedGrounded |-> FALSE]
    /\ cmds = [ins |-> [m \in {"Grounded", "Coyote", "Landing", "Walljump", "LedgeGrab"} |-> None],
               rem |-> {}]
    /\ friction = 1
    /\ gravity = 1
    /\ momentum = None
    /\ moved = None
    /\ dt = 1
    /\ drift = <<0, 0, 0>>
    /\ airPress = FALSE
    /\ grabPressed = FALSE
    /\ OthersInit

PmHandleGrounded ==
    /\ PmMayRun("handle_grounded")
    /\ \E rayHit \in BOOLEAN : grounded' = pm_handle_grounded(grounded, rayHit)
    /\ todo' = todo \ {"handle_grounded"}
    /\ UNCHANGED <<rev, jump, hist, linvel, facing, touching, jumpPressed, tick, mvars>>
    /\ seen' = None

PmBufferJump ==
    /\ PmMayRun("buffer_jump")
    /\ jump' = IF jumpPressed THEN pm_buffer_jump(jump) ELSE jump
    /\ todo' = todo \ {"buffer_jump"}
    /\ UNCHANGED <<rev, hist, grounded, linvel, facing, touching, jumpPressed, tick, mvars>>
    /\ seen' = None

PmHandleJumping ==
    /\ PmMayRun("handle_jumping")
    /\ LET r == pm_handle_jumping(grounded, jump, linvel)
       IN  /\ grounded' = r.grounded
           /\ jump' = r.jump
           /\ linvel' = r.linvel
    /\ todo' = todo \ {"handle_jumping"}
    /\ UNCHANGED <<rev, hist, facing, touching, jumpPressed, tick, mvars>>
    /\ seen' = None

PmHandleWallSliding ==
    /\ PmMayRun("handle_wall_sliding")
    /\ linvel' = pm_handle_wall_sliding(grounded, linvel)
    /\ todo' = todo \ {"handle_wall_sliding"}
    /\ UNCHANGED <<rev, jump, hist, grounded, facing, touching, jumpPressed, tick, mvars>>
    /\ seen' = None

PmDetectWalls ==
    /\ PmMayRun("detect_walls")
    /\ \E batch \in Batches(touching) :
          LET r == pm_detect_walls(batch, grounded, linvel)
          IN  /\ grounded' = r.grounded
              /\ linvel' = r.linvel
              /\ touching' = ContactAfter(touching, batch)
              /\ seen' = Some(batch)
    /\ todo' = todo \ {"detect_walls"}
    /\ UNCHANGED <<rev, jump, hist, facing, jumpPressed, tick, mvars>>

PmHandleWallJumping ==
    /\ PmMayRun("handle_wall_jumping")
    /\ LET r == pm_handle_wall_jumping(grounded, jump, linvel, facing, jumpPressed)
       IN  /\ grounded' = r.grounded
           /\ jump' = r.jump
           /\ linvel' = r.linvel
           /\ facing' = r.facing
    /\ todo' = todo \ {"handle_wall_jumping"}
    /\ UNCHANGED <<rev, hist, touching, jumpPressed, tick, mvars>>
    /\ seen' = None

\* Between two ticks the physics step moves the player and new input arrives.
PmEndTick ==
    /\ todo = {}
    /\ todo' = PmSystems
    /\ jumpPressed' \in BOOLEAN
    /\ linvel' = Kept
    /\ facing' = None
    /\ seen' = None
    /\ UNCHANGED <<rev, jump, hist, grounded, touching, tick, mvars>>

PmNext ==
    \/ PmHandleGrounded
    \/ PmBufferJump
    \/ PmHandleJumping
    \/ PmHandleWallSliding
    \/ PmDetectWalls
    \/ PmHandleWallJumping
    \/ PmEndTick

SpecEnum == PmInit /\ [][PmNext]_vars

----------------------------------------------------------------------------
(* Claims about the state machine of player_movement.rs, under SpecEnum *)

\* The system that a step runs.
Runs(sys) == todo \ todo' = {sys}

\* C10: the state becomes Rising only when handle_jumping executes a buffered
\* jump from a state where can_jump holds, or when handle_wall_jumping runs in
\* WallSliding; handle_grounded (the ground ray) and detect_walls (the collision
\* events) never move the state to Rising; and WallSliding is entered only by
\* detect_walls, started in an airborne state.
C10_RisingAndWallSlidingEntry ==
    [][/\ (grounded'.state.tag = "Rising" /\ grounded.state.tag # "Rising") =>
             \/ /\ Runs("handle_jumping")
                /\ grounded.state.tag \in {"Grounded", "Coyote"}
                /\ jump.jump_buffered
             \/ /\ Runs("handle_wall_jumping")
                /\ grounded.state.tag = "WallSliding"
       /\ (grounded'.state.tag = "WallSliding" /\ grounded.state.tag # "WallSliding") =>
             /\ Runs("detect_walls")
             /\ grounded.state.tag \in {"Coyote", "Rising", "Falling"}]_vars

\* A wall jump has just turned WallSliding into Rising.
C10_Witness ==
    /\ grounded.state.tag = "Rising"
    /\ "handle_wall_jumping" \notin todo
    /\ linvel \in {Wrote(VScale(VAdd(Y, WallNormal(w)), 15)) : w \in Walls}

----------------------------------------------------------------------------
(* The marker components of player/movement and the deferred Commands *)

Markers == {"Grounded", "Coyote", "Landing", "Walljump", "LedgeGrab"}

\* A marker is None while the player entity does not have the component, and
\* Some of its value while it has: the elapsed time of the timer of Coyote and
\* of Landing, the normal of Walljump and of LedgeGrab, 0 for Grounded.
\* AddedGrounded is what the filter Added<Grounded> sees.
NoMarkers ==
    [Grounded |-> None, Coyote |-> None, Landing |-> None,
     Walljump |-> None, LedgeGrab |-> None, AddedGrounded |-> FALSE]

\* The Commands queued in a tick: the last value inserted for each component,
\* and the components removed.
NoCmds == [ins |-> [m \in Markers |-> None], rem |-> {}]
Insert(c, m, v) == [c EXCEPT !.ins[m] = Some(v)]
Remove(c, m) == [c EXCEPT !.rem = @ \cup {m}]

\* The components that one system inserts and another removes in the same tick.
\* (Within handle_grounded, detect_walls and detect_ledges no component is both
\* inserted and removed.)
Conflicts(c) == {m \in Markers : c.ins[m] # None /\ m \in c.rem}

\* apply_system_buffers: the queues are applied system by system in the order
\* of the schedule, which the plugin does not constrain: where one system
\* inserts a component and another removes it, insertLast holds the components
\* whose insert is applied after the remove.
AppliedMarker(p, c, insertLast, m) ==
    IF c.ins[m] # None /\ (m \notin c.rem \/ m \in insertLast) THEN c.ins[m]
    ELSE IF m \in c.rem THEN None
    ELSE p[m]

Applied(p, c, insertLast) ==
    [Grounded |-> AppliedMarker(p, c, insertLast, "Grounded"),
     Coyote |-> AppliedMarker(p, c, insertLast, "Coyote"),
     Landing |-> AppliedMarker(p, c, insertLast, "Landing"),
     Walljump |-> AppliedMarker(p, c, insertLast, "Walljump"),
     LedgeGrab |-> AppliedMarker(p, c, insertLast, "LedgeGrab"),
     AddedGrounded |-> p.Grounded = None /\ c.ins["Grounded"] # None]

LedgeSensor == "ledge_sensor"
Ledges == {"ledge1"}
LedgeFace == <<0, 0, 1>>

\* The collision events of one tick that involve the ledge sensor: it starts
\* or stops touching the ledge, in either operand order, or starts touching a
\* wall. A Started event carries what cast_ray_and_get_normal returns if the
\* confirming ray is cast for it.
LedgeBatches ==
    {<<>>} \cup
    {<<Event("Started", LedgeSensor, "ledge1", r)>> : r \in {None, Some(LedgeFace)}} \cup
    {<<Event("Started", "ledge1", LedgeSensor, r)>> : r \in {None, Some(LedgeFace)}} \cup
    {<<Event("Started", LedgeSensor, "wall1", Some(WallNormal("wall1")))>>,
     <<Event("Stopped", LedgeSensor, "ledge1", None)>>}

----------------------------------------------------------------------------
(* The systems of player/movement: jumping.rs and mod.rs *)

handle_self_removing_components(p, c, delta) ==
    LET landing == IF p.Landing = None THEN None
                   ELSE Some(TimerTick(p.Landing[1], delta, LandingTime))
        coyote == IF p.Coyote = None THEN None
                  ELSE Some(TimerTick(p.Coyote[1], delta, CoyoteTime))
        c1 == IF landing # None /\ TimerFinished(landing[1], LandingTime)
              THEN Remove(c, "Landing") ELSE c
        c2 == IF coyote # None /\ TimerFinished(coyote[1], CoyoteTime)
              THEN Remove(c1, "Coyote") ELSE c1
    IN  [player |-> [p EXCEPT !.Landing = landing, !.Coyote = coyote], cmds |-> c2]

handle_jump_buffer(j, delta) == update(j, delta)

\* 10.0 * time.delta_seconds() is delta units of 0.5.
aerial_drift(p, d, direction, delta) ==
    IF p.Grounded = None /\ p.LedgeGrab = None
    THEN VAdd(d, VScale(direction, delta))
    ELSE d

handle_grounded(p, c, d, rayHit) ==
    LET has_grounded == p.Grounded # None
    IN  IF rayHit
        THEN IF ~has_grounded
             THEN [cmds |-> Insert(Insert(c, "Grounded", 0), "Landing", 0),
                   drift |-> Zero]
             ELSE [cmds |-> c, drift |-> d]
        ELSE IF has_grounded
             THEN [cmds |-> Remove(Insert(c, "Coyote", 0), "Grounded"), drift |-> d]
             ELSE [cmds |-> c, drift |-> d]

buffer_jump_system(j, pressed) == IF pressed THEN buffer_jump(j) ELSE j

handle_jumping_landed_only(p, c, j, v) ==
    IF p.Grounded # None /\ p.Landing = None
    THEN LET r == get_jump_force(j)
         IN  IF r.ret # None
             THEN [jump |-> r.jump, linvel |-> [v EXCEPT ![2] = Some(r.ret[1])],
                   cmds |-> Remove(c, "Grounded"), force |-> r.ret]
             ELSE [jump |-> r.jump, linvel |-> v, cmds |-> c, force |-> None]
    ELSE [jump |-> j, linvel |-> v, cmds |-> c, force |-> None]

handle_jumping_restarts_on_landing(p, c, j, v) ==
    IF p.Grounded # None \/ p.Coyote # None
    THEN LET r == get_jump_force(IF p.Landing # None THEN reset_jump_stage(j) ELSE j)
             c1 == IF p.Grounded # None THEN Remove(c, "Grounded") ELSE c
             c2 == IF p.Coyote # None THEN Remove(c1, "Coyote") ELSE c1
         IN  IF r.ret # None
             THEN [jump |-> r.jump, linvel |-> [v EXCEPT ![2] = Some(r.ret[1])],
                   cmds |-> c2, force |-> r.ret]
             ELSE [jump |-> r.jump, linvel |-> v, cmds |-> c, force |-> None]
    ELSE [jump |-> j, linvel |-> v, cmds |-> c, force |-> None]

handle_jumping(p, c, j, v) ==
    IF p.Grounded # None \/ p.Coyote # None
    THEN LET r == get_jump_force(j)
             c1 == IF p.Grounded # None THEN Remove(c, "Grounded") ELSE c
             c2 == IF p.Coyote # None THEN Remove(c1, "Coyote") ELSE c1
         IN  IF r.ret # None
             THEN [jump |-> r.jump, linvel |-> [v EXCEPT ![2] = Some(r.ret[1])],
                   cmds |-> c2, force |-> r.ret]
             ELSE [jump |-> r.jump, linvel |-> v, cmds |-> c, force |-> None]
    ELSE [jump |-> j, linvel |-> v, cmds |-> c, force |-> None]

reset_jumps_after_landing_never(p, j) == j

reset_jumps_after_landing(p, j) ==
    IF p.Grounded # None /\ p.Landing = None THEN reset_jump_stage(j) ELSE j

RECURSIVE detect_walls_events_friction_kept(_, _, _, _)
detect_walls_events_friction_kept(events, walljump, c, f) ==
    IF events = <<>> THEN [cmds |-> c, friction |-> f]
    ELSE
      LET e == Head(events)
          sensorWall == \/ e.e1 = Sensor /\ e.e2 \in Walls
                        \/ e.e2 = Sensor /\ e.e1 \in Walls
          hit == sensorWall /\ walljump = None
      IN  IF e.kind = "Started"
          THEN IF hit /\ e.ray # None
               THEN detect_walls_events_friction_kept(Tail(events), walljump,
                                        Insert(c, "Walljump", e.ray[1]), f)
               ELSE detect_walls_events_friction_kept(Tail(events), walljump, c, f)
          ELSE IF sensorWall
               THEN detect_walls_events_friction_kept(Tail(events), walljump,
                        IF walljump # None THEN Remove(c, "Walljump") ELSE c, 1)
               ELSE detect_walls_events_friction_kept(Tail(events), walljump, c, f)

RECURSIVE detect_walls_events(_, _, _, _)
detect_walls_events(events, walljump, c, f) ==
    IF events = <<>> THEN [cmds |-> c, friction |-> f]
    ELSE
      LET e == Head(events)
          sensorWall == \/ e.e1 = Sensor /\ e.e2 \in Walls
                        \/ e.e2 = Sensor /\ e.e1 \in Walls
          hit == sensorWall /\ walljump = None
      IN  IF e.kind = "Started"
          THEN IF hit /\ e.ray # None
               THEN detect_walls_events(Tail(events), walljump,
                                        Insert(c, "Walljump", e.ray[1]), 0)
               ELSE detect_walls_events(Tail(events), walljump, c, f)
          ELSE IF sensorWall
               THEN detect_walls_events(Tail(events), walljump,
                        IF walljump # None THEN Remove(c, "Walljump") ELSE c, 1)
               ELSE detect_walls_events(Tail(events), walljump, c, f)

detect_walls(events, p, c, f) ==
    IF p.Grounded = None
    THEN detect_walls_events(events, p.Walljump, c, f)
    ELSE [cmds |-> c, friction |-> f]

handle_wall_jumping_diagonal(p, c, j, v, fa, mo, pressed) ==
    IF p.Walljump # None /\ pressed
    THEN LET r1 == get_wall_jump_force(j)
             r2 == get_wall_jump_force(r1.jump)
         IN  [jump |-> r2.jump, facing |-> Some(p.Walljump[1]),
              momentum |-> Some(r1.ret),
              linvel |-> Wrote(VScale(VAdd(Y, p.Walljump[1]), r2.ret)),
              cmds |-> Remove(c, "Walljump"), jumped |-> TRUE]
    ELSE [jump |-> j, facing |-> fa, momentum |-> mo, linvel |-> v, cmds |-> c,
          jumped |-> FALSE]

handle_wall_jumping(p, c, j, v, fa, mo, pressed) ==
    IF p.Walljump # None /\ pressed
    THEN LET r1 == get_wall_jump_force(j)
             r2 == get_wall_jump_force(r1.jump)
         IN  [jump |-> r2.jump, facing |-> Some(p.Walljump[1]),
              momentum |-> Some(r1.ret), linvel |-> Wrote(VScale(Y, r2.ret)),
              cmds |-> Remove(c, "Walljump"), jumped |-> TRUE]
    ELSE [jump |-> j, facing |-> fa, momentum |-> mo, linvel |-> v, cmds |-> c,
          jumped |-> FALSE]

RECURSIVE detect_ledges_events_gravity_kept(_, _, _, _, _, _)
detect_ledges_events_gravity_kept(events, ledgegrab, walljump, c, v, g) ==
    IF events = <<>> THEN [cmds |-> c, linvel |-> v, gravity |-> g]
    ELSE
      LET e == Head(events)
          hit == \/ e.e1 = LedgeSensor /\ e.e2 \in Ledges /\ ledgegrab = None
                 \/ e.e2 = LedgeSensor /\ e.e1 \in Ledges /\ ledgegrab = None
          c1 == Insert(c, "LedgeGrab", VScale(e.ray[1], -1))
      IN  IF e.kind = "Started" /\ hit /\ e.ray # None
          THEN detect_ledges_events_gravity_kept(Tail(events), ledgegrab, walljump,
                   IF walljump # None THEN Remove(c1, "Walljump") ELSE c1,
                   Wrote(Zero), g)
          ELSE detect_ledges_events_gravity_kept(Tail(events), ledgegrab, walljump,
                                                 c, v, g)

RECURSIVE detect_ledges_events(_, _, _, _, _, _)
detect_ledges_events(events, ledgegrab, walljump, c, v, g) ==
    IF events = <<>> THEN [cmds |-> c, linvel |-> v, gravity |-> g]
    ELSE
      LET e == Head(events)
          hit == \/ e.e1 = LedgeSensor /\ e.e2 \in Ledges /\ ledgegrab = None
                 \/ e.e2 = LedgeSensor /\ e.e1 \in Ledges /\ ledgegrab = None
          c1 == Insert(c, "LedgeGrab", VScale(e.ray[1], -1))
      IN  IF e.kind = "Started" /\ hit /\ e.ray # None
          THEN detect_ledges_events(Tail(events), ledgegrab, walljump,
                   IF walljump # None THEN Remove(c1, "Walljump") ELSE c1,
                   Wrote(Zero), 0)
          ELSE detect_ledges_events(Tail(events), ledgegrab, walljump, c, v, g)

detect_ledges(events, p, c, v, g) ==
    IF p.Grounded = None
    THEN detect_ledges_events(events, p.LedgeGrab, p.Walljump, c, v, g)
    ELSE [cmds |-> c, linvel |-> v, gravity |-> g]

handle_ledge_grab_any_press_climbs(p, c, g, mv, jumpP, grabP) ==
    IF p.LedgeGrab # None
    THEN [moved |-> IF jumpP \/ grabP
                    THEN Some(VAdd(VScale(p.LedgeGrab[1], 15), VScale(Y, 18)))
                    ELSE mv,
          cmds |-> IF grabP \/ jumpP THEN Remove(c, "LedgeGrab") ELSE c,
          gravity |-> IF grabP \/ jumpP THEN 1 ELSE g]
    ELSE [moved |-> mv, cmds |-> c, gravity |-> g]

handle_ledge_grab_gravity_on_climb_only(p, c, g, mv, jumpP, grabP) ==
    IF p.LedgeGrab # None
    THEN [moved |-> IF jumpP
                    THEN Some(VAdd(VScale(p.LedgeGrab[1], 15), VScale(Y, 18)))
                    ELSE mv,
          cmds |-> IF grabP \/ jumpP THEN Remove(c, "LedgeGrab") ELSE c,
          gravity |-> IF jumpP THEN 1 ELSE g]
    ELSE [moved |-> mv, cmds |-> c, gravity |-> g]

\* The displacement is in tenths: ledgegrab.0 * 1.5 + Vec3::Y * 1.8.
handle_ledge_grab(p, c, g, mv, jumpP, grabP) ==
    IF p.LedgeGrab # None
    THEN [moved |-> IF jumpP
                    THEN Some(VAdd(VScale(p.LedgeGrab[1], 15), VScale(Y, 18)))
                    ELSE mv,
          cmds |-> IF grabP \/ jumpP THEN Remove(c, "LedgeGrab") ELSE c,
          gravity |-> IF grabP \/ jumpP THEN 1 ELSE g]
    ELSE [moved |-> mv, cmds |-> c, gravity |-> g]

add_friction_when_landing(p, f) ==
    IF p.Grounded # None /\ p.AddedGrounded THEN 1 ELSE f

----------------------------------------------------------------------------
(* One tick of player/movement *)

\* The systems whose body can act on the player as it is when the tick starts:
\* those whose Query matches the player's components (With, Without, Added and
\* required components; for handle_jumping the test of its Option components)
\* and, for buffer_jump and handle_wall_jumping, whose just_pressed test holds.
\* detect_walls is always listed: while the player is Grounded it reads no
\* event, but the contacts change all the same.
Scheduled(p, pressed) ==
    {"handle_grounded", "detect_walls", "handle_jump_buffer"}
    \cup (IF p.Landing # None \/ p.Coyote # None
          THEN {"handle_self_removing_components"} ELSE {})
    \cup (IF pressed THEN {"buffer_jump"} ELSE {})
    \cup (IF p.Grounded # None \/ p.Coyote # None THEN {"handle_jumping"} ELSE {})
    \cup (IF p.Grounded # None /\ p.Landing = None
          THEN {"reset_jumps_after_landing"} ELSE {})
    \cup (IF p.Walljump # None /\ pressed THEN {"handle_wall_jumping"} ELSE {})
    \cup (IF p.Grounded = None THEN {"detect_ledges"} ELSE {})
    \cup (IF p.Grounded = None /\ p.LedgeGrab = None THEN {"aerial_drift"} ELSE {})
    \cup (IF p.LedgeGrab # None THEN {"handle_ledge_grab"} ELSE {})
    \cup (IF p.Grounded # None /\ p.AddedGrounded
          THEN {"add_friction_when_landing"} ELSE {})

\* PlayerMovementPlugin::build orders only handle_jumping after buffer_jump.
\* The systems of rank 0 read and write Jump and Velocity and run in every
\* order, and so do handle_grounded and aerial_drift, which write Drift. These
\* two groups and the systems of the other ranks share no data with the rest
\* of the tick but the Commands, whose order of application EndTick chooses:
\* each order of the tick has the same outcome as one that runs them in rank
\* order. detect_ledges writes Velocity: it is of rank 0 in the ticks where
\* handle_jumping or handle_wall_jumping can write it too.
Rank(sys) ==
    CASE sys = "handle_self_removing_components" -> 1
      [] sys \in {"handle_grounded", "aerial_drift"} -> 2
      [] sys = "add_friction_when_landing" -> 3
      [] sys = "handle_ledge_grab" -> 4
      [] sys = "detect_walls" -> 5
      [] sys = "detect_ledges" ->
            IF player.Coyote # None \/ (player.Walljump # None /\ jumpPressed)
            THEN 0 ELSE 6
      [] OTHER -> 0

MayRun(sys) ==
    /\ sys \in todo
    /\ \A t \in todo : Rank(t) >= Rank(sys)
    /\ sys = "handle_jumping" => "buffer_jump" \notin todo

\* The batches of a tick with one wall: at most one event.
WallBatches(t) ==
    {b \in Batches(t) : /\ Len(b) <= 1
                        /\ \A i \in 1..Len(b) : b[i].e1 # "wall2" /\ b[i].e2 # "wall2"}

\* The player as spawned: Jump::default(), no marker component yet (the first
\* ground ray that hits attaches Grounded), friction and gravity scale 1.
MkInit ==
    /\ rev = "components"
    /\ jump = JumpDefault
    /\ lastOp = [op |-> "new", ret |-> None, pre |-> JumpDefault,
                 prePresses |-> 0, prePending |-> FALSE, preAcc |-> 0]
    /\ chain = <<>>
    /\ chainValid = TRUE
    /\ presses = 0
    /\ pending = FALSE
    /\ acc = 0
    /\ airPress = FALSE
    /\ grabPressed = FALSE
    /\ OthersInit
    /\ grounded = GroundedDefault
    /\ linvel = Kept
    /\ facing = None
    /\ momentum = None
    /\ moved = None
    /\ touching = {}
    /\ friction = 1
    /\ gravity = 1
    /\ player = NoMarkers
    /\ cmds = NoCmds
    /\ jumpPressed \in BOOLEAN
    /\ dt \in 1..MaxFrame
    /\ drift = Zero
    /\ todo = Scheduled(NoMarkers, jumpPressed)
    /\ tick = [stage0 |-> "Single", jumped |-> None]
    /\ seen = None

\* What no system of the tick changes.
fixed == <<rev, lastOp, chain, chainValid, presses, grounded, jumpPressed, grabPressed,
           dt, ovars>>

HandleSelfRemovingComponents ==
    /\ MayRun("handle_self_removing_components")
    /\ LET r == handle_self_removing_components(player, cmds, dt)
       IN  /\ player' = r.player
           /\ cmds' = r.cmds
    /\ todo' = todo \ {"handle_self_removing_components"}
    /\ seen' = None
    /\ UNCHANGED <<fixed, drift, jump, pending, acc, airPress, linvel, facing, momentum,
                   moved, touching, friction, gravity, tick>>

\* What get_direction_in_camera_space returns: no direction held, or one.
Directions == {Zero, <<1, 0, 0>>}

AerialDrift ==
    /\ MayRun("aerial_drift")
    /\ \E direction \in Directions :
          /\ drift' = aerial_drift(player, drift, direction, dt)
          /\ drift'[1] <= MaxDrift
    /\ todo' = todo \ {"aerial_drift"}
    /\ seen' = None
    /\ UNCHANGED <<fixed, jump, pending, acc, airPress, linvel, facing, momentum,
                   moved, touching, friction, gravity, tick, player, cmds>>

HandleGrounded ==
    /\ MayRun("handle_grounded")
    /\ \E rayHit \in BOOLEAN :
          LET r == handle_grounded(player, cmds, drift, rayHit)
          IN  /\ cmds' = r.cmds
              /\ drift' = r.drift
    /\ todo' = todo \ {"handle_grounded"}
    /\ seen' = None
    /\ UNCHANGED <<fixed, jump, pending, acc, airPress, linvel, facing, momentum,
                   moved, touching, friction, gravity, tick, player>>

DetectWalls ==
    /\ MayRun("detect_walls")
    /\ \E batch \in WallBatches(touching) :
          LET r == detect_walls(batch, player, cmds, friction)
          IN  /\ cmds' = r.cmds
              /\ friction' = r.friction
              /\ touching' = ContactAfter(touching, batch)
              /\ seen' = IF player.Grounded = None THEN Some(batch) ELSE None
    /\ todo' = todo \ {"detect_walls"}
    /\ UNCHANGED <<fixed, drift, jump, pending, acc, airPress, linvel, facing, momentum,
                   moved, gravity, tick, player>>

AddFrictionWhenLanding ==
    /\ MayRun("add_friction_when_landing")
    /\ friction' = add_friction_when_landing(player, friction)
    /\ todo' = todo \ {"add_friction_when_landing"}
    /\ seen' = None
    /\ UNCHANGED <<fixed, drift, jump, pending, acc, airPress, linvel, facing, momentum,
                   moved, touching, gravity, tick, player, cmds>>

HandleLedgeGrab ==
    /\ MayRun("handle_ledge_grab")
    /\ LET r == handle_ledge_grab(player, cmds, gravity, moved, jumpPressed,
                                 grabPressed)
       IN  /\ moved' = r.moved
           /\ cmds' = r.cmds
           /\ gravity' = r.gravity
    /\ todo' = todo \ {"handle_ledge_grab"}
    /\ seen' = None
    /\ UNCHANGED <<fixed, drift, jump, pending, acc, airPress, linvel, facing, momentum,
                   touching, friction, tick, player>>

BufferJump ==
    /\ MayRun("buffer_jump")
    /\ jump' = buffer_jump_system(jump, jumpPressed)
    /\ pending' = (jumpPressed \/ pending)
    /\ acc' = IF jumpPressed THEN 0 ELSE acc
    /\ airPress' = IF jumpPressed
                   THEN player.Grounded = None /\ player.Coyote = None
                   ELSE airPress
    /\ todo' = todo \ {"buffer_jump"}
    /\ seen' = None
    /\ UNCHANGED <<fixed, drift, linvel, facing, momentum, moved, touching, friction,
                   gravity, tick, player, cmds>>

HandleJumping ==
    /\ MayRun("handle_jumping")
    /\ LET r == handle_jumping(player, cmds, jump, linvel)
           called == player.Grounded # None \/ player.Coyote # None
       IN  /\ jump' = r.jump
           /\ linvel' = r.linvel
           /\ cmds' = r.cmds
           /\ tick' = [tick EXCEPT !.jumped = r.force]
           /\ pending' = (pending /\ ~called)
           /\ airPress' = (airPress /\ ~called)
           /\ acc' = IF called THEN 0 ELSE acc
    /\ todo' = todo \ {"handle_jumping"}
    /\ seen' = None
    /\ UNCHANGED <<fixed, drift, facing, momentum, moved, touching, friction,
                   gravity, player>>

ResetJumpsAfterLanding ==
    /\ MayRun("reset_jumps_after_landing")
    /\ jump' = reset_jumps_after_landing(player, jump)
    /\ todo' = todo \ {"reset_jumps_after_landing"}
    /\ seen' = None
    /\ UNCHANGED <<fixed, drift, pending, acc, airPress, linvel, facing, momentum, moved,
                   touching, friction, gravity, tick, player, cmds>>

HandleJumpBuffer ==
    /\ MayRun("handle_jump_buffer")
    /\ jump' = handle_jump_buffer(jump, dt)
    /\ acc' = IF pending THEN Min(acc + dt, JumpWindowComponents) ELSE acc
    /\ todo' = todo \ {"handle_jump_buffer"}
    /\ seen' = None
    /\ UNCHANGED <<fixed, drift, pending, airPress, linvel, facing, momentum, moved,
                   touching, friction, gravity, tick, player, cmds>>

HandleWallJumping ==
    /\ MayRun("handle_wall_jumping")
    /\ LET r == handle_wall_jumping(player, cmds, jump, linvel, facing, momentum,
                                    jumpPressed)
       IN  /\ jump' = r.jump
           /\ facing' = r.facing
           /\ momentum' = r.momentum
           /\ linvel' = r.linvel
           /\ cmds' = r.cmds
           /\ pending' = (pending /\ ~r.jumped)
    /\ todo' = todo \ {"handle_wall_jumping"}
    /\ seen' = None
    /\ UNCHANGED <<fixed, drift, acc, airPress, moved, touching, friction, gravity, tick,
                   player>>

DetectLedges ==
    /\ MayRun("detect_ledges")
    /\ \E batch \in LedgeBatches :
          LET r == detect_ledges(batch, player, cmds, linvel, gravity)
          IN  /\ cmds' = r.cmds
              /\ linvel' = r.linvel
              /\ gravity' = r.gravity
              /\ seen' = IF player.Grounded = None THEN Some(batch) ELSE None
    /\ todo' = todo \ {"detect_ledges"}
    /\ UNCHANGED <<fixed, drift, jump, pending, acc, airPress, facing, momentum, moved,
                   touching, friction, tick, player>>

\* The end of Update: apply_system_buffers applies the Commands, the physics
\* step consumes the velocity, and the next frame brings new input.
EndTick ==
    /\ todo = {}
    /\ \E insertLast \in SUBSET Conflicts(cmds) :
          player' = Applied(player, cmds, insertLast)
    /\ cmds' = NoCmds
    /\ linvel' = Kept
    /\ facing' = None
    /\ momentum' = None
    /\ moved' = None
    /\ seen' = None
    /\ jumpPressed' \in BOOLEAN
    /\ dt' \in 1..MaxFrame
    /\ grabPressed' \in IF player'.LedgeGrab # None THEN BOOLEAN ELSE {FALSE}
    /\ todo' = Scheduled(player', jumpPressed')
    /\ tick' = [stage0 |-> jump.jump_stage, jumped |-> None]
    /\ UNCHANGED <<rev, jump, lastOp, chain, chainValid, presses, pending, acc,
                   airPress, grounded, touching, friction, gravity, drift, ovars>>

MkNext ==
    \/ HandleSelfRemovingComponents
    \/ AerialDrift
    \/ HandleGrounded
    \/ DetectWalls
    \/ AddFrictionWhenLanding
    \/ HandleLedgeGrab
    \/ BufferJump
    \/ HandleJumping
    \/ ResetJumpsAfterLanding
    \/ HandleJumpBuffer
    \/ HandleWallJumping
    \/ DetectLedges
    \/ EndTick

SpecMarker == MkInit /\ [][MkNext]_vars

\* Both revisions of the movement code, each run on its own: a behaviour is a
\* behaviour of player_movement.rs or one of player/movement.
RevNext ==
    \/ rev = "player_movement" /\ PmNext
    \/ rev = "components" /\ MkNext

SpecRevisions == (PmInit \/ MkInit) /\ [][RevNext]_vars

----------------------------------------------------------------------------
(* Claims about the marker-based revision, under SpecMarker *)

\* A tick boundary: the Commands of the last tick are applied and no system of
\* this tick has run.
AtTickStart == todo = Scheduled(player, jumpPressed)

\* C5: when a tick starts with the player Grounded without Landing, jump_stage
\* Single and Jump just pressed, then at the end of the tick velocity.y is 10,
\* jump_stage is Double and the Commands applied remove Grounded, in every
\* order of the systems.
C5_GroundedJump ==
    [][(/\ todo = {}
        /\ player.Grounded # None
        /\ player.Landing = None
        /\ tick.stage0 = "Single"
        /\ jumpPressed) =>
            /\ linvel[2] = Some(10)
            /\ jump.jump_stage = "Double"
            /\ player'.Grounded = None]_vars

\* C6 as stated: handle_jumping, run with the player Grounded while a press
\* made with neither Grounded nor Coyote is outstanding, executes the jump with
\* the force of the stage if less than 0.2 s of update time has accumulated
\* since the press, and executes none if the window has elapsed.
C6_AirPressExecutesOnLanding ==
    [][/\ (Runs("buffer_jump") /\ jumpPressed) =>
              (jump'.jump_buffered /\ jump'.input_timer = 0)
       /\ (Runs("handle_jumping") /\ airPress /\ player.Grounded # None) =>
              IF acc < JumpWindowComponents
              THEN /\ tick'.jumped = Some(StageForce(jump.jump_stage))
                   /\ linvel'[2] = Some(StageForce(jump.jump_stage))
              ELSE /\ tick'.jumped = None
                   /\ linvel' = linvel]_vars

\* C6, amended: a press is buffered whatever markers the player has; with the
\* player Grounded, handle_jumping executes the outstanding airborne press with
\* the force of the stage if less than 0.2 s of update time has accumulated
\* since the press and no wall jump has consumed it (pending), and executes no
\* jump otherwise.
C6_AirPressExecutesUnlessConsumed ==
    [][/\ (Runs("buffer_jump") /\ jumpPressed) =>
              (jump'.jump_buffered /\ jump'.input_timer = 0)
       /\ (Runs("handle_jumping") /\ airPress /\ player.Grounded # None) =>
              IF pending /\ acc < JumpWindowComponents
              THEN /\ tick'.jumped = Some(StageForce(jump.jump_stage))
                   /\ linvel'[2] = Some(StageForce(jump.jump_stage))
              ELSE /\ tick'.jumped = None
                   /\ linvel' = linvel]_vars

\* A jump executed on the ground in a tick without a press: the press was
\* buffered in the air.
C6_Witness ==
    /\ tick.jumped # None
    /\ ~jumpPressed
    /\ player.Grounded # None
    /\ player.Coyote = None
    /\ player.Walljump = None

C8_CoyoteGrace ==
    [][/\ (todo = {} /\ player.Grounded # None /\ cmds.ins["Coyote"] # None) =>
              player'.Coyote = Some(0)
       /\ (/\ todo = {}
           /\ player.Coyote # None
           /\ player.Grounded = None
           /\ jumpPressed) => tick.jumped # None
       /\ (player.Grounded = None /\ player.Coyote = None) =>
              tick.jumped = None]_vars

\* C9: at most one of the markers Grounded, Coyote, Walljump and LedgeGrab is
\* on the player at a tick boundary.
C9_OneTraversalMarker ==
    AtTickStart =>
        Cardinality({m \in {"Grounded", "Coyote", "Walljump", "LedgeGrab"} :
                        player[m] # None}) <= 1

----------------------------------------------------------------------------
(* Wall jumps, wall slides and ledge grabs *)

\* C11: in player_movement.rs, when handle_wall_jumping runs with the state
\* WallSliding(n) and Jump just pressed, it leaves the velocity (Y + n) * 15,
\* the state Rising and the player facing along n.
C11_EnumWallJump ==
    [][(/\ Runs("handle_wall_jumping")
        /\ rev = "player_movement"
        /\ grounded.state.tag = "WallSliding"
        /\ jumpPressed) =>
            /\ linvel' = Wrote(VScale(VAdd(Y, grounded.state.normal), 15))
            /\ grounded'.state = State("Rising")
            /\ facing' = Some(grounded.state.normal)]_vars

\* A wall jump off the wall whose normal is (1, 0, 0) has just run.
C11_Witness ==
    /\ rev = "player_movement"
    /\ "handle_wall_jumping" \notin todo
    /\ grounded.state = State("Rising")
    /\ linvel = Wrote(<<15, 15, 0>>)
    /\ facing = Some(<<1, 0, 0>>)

WallEntryEvent(e) ==
    /\ e.kind = "Started"
    /\ \/ e.e1 = Sensor /\ e.e2 \in Walls
       \/ e.e2 = Sensor /\ e.e1 \in Walls
    /\ e.ray # None

\* The batch has a WallEntryEvent that no collision-end event of the sensor
\* with a wall follows.
WallEntryStands(b) ==
    \E i \in 1..Len(b) :
        /\ WallEntryEvent(b[i])
        /\ \A k \in (i + 1)..Len(b) : b[k].kind # "Stopped" \/ SensorWall(b[k]) = None

\* A step that enters the wall slide: the state becomes WallSliding in
\* player_movement.rs, the insertion of Walljump is queued in player/movement.
EnumWallSlideEntry ==
    rev = "player_movement" /\ ~is_wall_sliding(grounded) /\ is_wall_sliding(grounded')
MarkerWallSlideEntry ==
    rev = "components" /\ cmds.ins["Walljump"] = None /\ cmds'.ins["Walljump"] # None

\* What both revisions share: the entry is made by detect_walls, airborne and
\* not wall-sliding, on a WallEntryEvent of the batch it read.
WallSlideEntryGuard ==
    /\ EnumWallSlideEntry \/ MarkerWallSlideEntry =>
          /\ Runs("detect_walls")
          /\ seen' # None
          /\ \E i \in 1..Len(seen'[1]) : WallEntryEvent(seen'[1][i])
    /\ EnumWallSlideEntry => is_airborne(grounded)
    /\ MarkerWallSlideEntry => player.Grounded = None /\ player.Walljump = None
    /\ rev = "components" /\ player.Walljump = None /\ player'.Walljump # None =>
          todo = {} /\ cmds.ins["Walljump"] # None

\* C13 as stated: a wall slide is entered only by detect_walls on a
\* collision-begin event pairing the wall sensor with a wall (either order)
\* whose ray hits, while airborne and not wall-sliding; on entry the horizontal
\* velocity (x and z) is zeroed and the friction coefficient is set to 0.
C13_EntryZeroesVelocityAndFriction ==
    [][/\ WallSlideEntryGuard
       /\ EnumWallSlideEntry \/ MarkerWallSlideEntry =>
             /\ linvel'[1] = Some(0) /\ linvel'[3] = Some(0)
             /\ WallEntryStands(seen'[1]) => friction' = 0]_vars

\* C13 as the code has it: the entry conditions hold in both revisions; on
\* entry player_movement.rs zeroes velocity x and z and has no friction to
\* set, player/movement/jumping.rs sets the friction coefficient to 0 and
\* leaves the velocity alone.
C13_EntryPerRevision ==
    [][/\ WallSlideEntryGuard
       /\ EnumWallSlideEntry =>
             /\ linvel'[1] = Some(0) /\ linvel'[3] = Some(0)
             /\ friction' = friction
       /\ MarkerWallSlideEntry =>
             /\ linvel' = linvel
             /\ WallEntryStands(seen'[1]) => friction' = 0]_vars

\* C13 witness: the marker revision has just entered on an event that names
\* the wall first, with the friction at 0.
C13_Witness ==
    /\ rev = "components"
    /\ seen = Some(<<Event("Started", "wall1", Sensor, Some(<<1, 0, 0>>))>>)
    /\ cmds.ins["Walljump"] = Some(<<1, 0, 0>>)
    /\ player.Walljump = None
    /\ friction = 0

\* A collision-begin event that pairs the ledge sensor with a ledge, in either
\* order, and whose confirming ray hits.
LedgeEntryEvent(e) ==
    /\ e.kind = "Started"
    /\ \/ e.e1 = LedgeSensor /\ e.e2 \in Ledges
       \/ e.e2 = LedgeSensor /\ e.e1 \in Ledges
    /\ e.ray # None

\* A step that enters the ledge grab: the insertion of LedgeGrab is queued.
LedgeGrabEntry == cmds.ins["LedgeGrab"] = None /\ cmds'.ins["LedgeGrab"] # None

\* C14: a ledge grab is entered only by detect_ledges, on a collision-begin
\* event pairing the ledge sensor with a ledge (either order) whose ray hits,
\* while the player has neither Grounded nor LedgeGrab; on entry detect_ledges
\* leaves the velocity zero and the gravity scale 0 and removes a Walljump
\* marker the player has; a batch without such an event changes nothing.
C14_LedgeGrabEntry ==
    [][/\ LedgeGrabEntry =>
             /\ Runs("detect_ledges")
             /\ player.Grounded = None /\ player.LedgeGrab = None
             /\ seen' # None
             /\ \E i \in 1..Len(seen'[1]) : LedgeEntryEvent(seen'[1][i])
             /\ linvel' = Wrote(Zero)
             /\ gravity' = 0
             /\ player.Walljump # None => "Walljump" \in cmds'.rem
       /\ player.LedgeGrab = None /\ player'.LedgeGrab # None =>
             /\ todo = {} /\ cmds.ins["LedgeGrab"] # None
             /\ player.Walljump # None => player'.Walljump = None
       /\ (/\ Runs("detect_ledges") /\ seen' # None
           /\ \A i \in 1..Len(seen'[1]) : ~LedgeEntryEvent(seen'[1][i])) =>
             UNCHANGED <<cmds, linvel, gravity, player>>]_vars

\* C14 witness: detect_ledges has just grabbed the ledge for a player that has
\* the Walljump marker.
C14_Witness ==
    /\ seen = Some(<<Event("Started", "ledge1", LedgeSensor, Some(LedgeFace))>>)
    /\ "detect_ledges" \notin todo
    /\ cmds.ins["LedgeGrab"] = Some(<<0, 0, -1>>)
    /\ player.Walljump # None
    /\ "Walljump" \in cmds.rem
    /\ linvel = Wrote(Zero)
    /\ gravity = 0

\* C15: when handle_ledge_grab runs for a player with LedgeGrab(n), a Jump press
\* moves the position by n * 1.5 + Y * 1.8 (in tenths: n * 15 + Y * 18), a Grab
\* press without Jump leaves the position alone, both queue the removal of
\* LedgeGrab (which the end of the tick applies) and set the gravity scale to
\* 1, and without either press nothing changes.
C15_LedgeClimbOrDrop ==
    [][/\ (Runs("handle_ledge_grab") /\ player.LedgeGrab # None) =>
             /\ jumpPressed =>
                   /\ moved' = Some(VAdd(VScale(player.LedgeGrab[1], 15), VScale(Y, 18)))
                   /\ "LedgeGrab" \in cmds'.rem
                   /\ gravity' = 1
             /\ (grabPressed /\ ~jumpPressed) =>
                   /\ moved' = moved
                   /\ "LedgeGrab" \in cmds'.rem
                   /\ gravity' = 1
             /\ (~grabPressed /\ ~jumpPressed) => UNCHANGED <<moved, cmds, gravity>>
       /\ (todo = {} /\ "LedgeGrab" \in cmds.rem) => player'.LedgeGrab = None]_vars

\* C15 witness: handle_ledge_grab has just dropped the player from the ledge
\* on a Grab press without Jump.
C15_Witness ==
    /\ "handle_ledge_grab" \notin todo
    /\ player.LedgeGrab = Some(<<0, 0, -1>>)
    /\ grabPressed /\ ~jumpPressed
    /\ moved = None
    /\ "LedgeGrab" \in cmds.rem
    /\ gravity = 1

\* C27: at the end of the tick in which the player lands, and on every later
\* tick while it stays grounded, Drift is the zero vector: in every state in
\* which a tick starts with Grounded on the player, drift is Zero.
C27_NoDriftWhileGrounded ==
    (todo = Scheduled(player, jumpPressed) /\ player.Grounded # None) => drift = Zero

\* C28: wall detection is not re-entrant within one tick: when two
\* collision-begin events of one batch pair the sensor with two walls and
\* both rays hit, the first puts the player into the wall slide and the
\* second does not overwrite the stored normal.
C28_FirstWallKept ==
    [][(/\ rev = "player_movement"
        /\ Runs("detect_walls")
        /\ seen' # None
        /\ Len(seen'[1]) = 2
        /\ WallEntryEvent(seen'[1][1]) /\ WallEntryEvent(seen'[1][2])
        /\ is_airborne(grounded) /\ ~is_wall_sliding(grounded))
       => grounded'.state = WallSliding(seen'[1][1].ray[1])]_vars

\* C29: a collision-end event ends the wall slide only if it pairs the
\* sensor with the wall whose collision-begin event started the slide: when
\* the only event of a batch is the collision-end of the sensor with another
\* wall than the one whose normal is stored, the wall-sliding state and its
\* normal stay as they are.
C29_OtherWallKeepsSlide ==
    [][(/\ rev = "player_movement"
        /\ Runs("detect_walls")
        /\ seen' # None
        /\ Len(seen'[1]) = 1
        /\ seen'[1][1].kind = "Stopped"
        /\ SensorWall(seen'[1][1]) # None
        /\ is_wall_sliding(grounded)
        /\ grounded.state.normal # WallNormal(SensorWall(seen'[1][1])[1]))
       => grounded'.state = grounded.state]_vars

\* C30: after a wall jump executes in a tick, no jump input is buffered at
\* the end of that tick: when every system has run in a tick that started
\* with Walljump on the player and a Jump press, jump_buffered is false.
C30_WallJumpLeavesNoBuffer ==
    (rev = "components" /\ todo = {} /\ player.Walljump # None /\ jumpPressed)
        => ~jump.jump_buffered

C33_CanJumpOnlyByGroundRay ==
    [][rev = "player_movement" =>
          /\ (~can_jump(grounded) /\ can_jump(grounded')) =>
                (Runs("handle_grounded") /\ grounded' = pm_handle_grounded(grounded, TRUE))
          /\ (Runs("handle_grounded") /\ can_jump(grounded')) =>
                grounded' # pm_handle_grounded(grounded, FALSE)]_vars

\* C34: in player/movement a wall jump never executes while the player is
\* grounded: in a tick in which handle_wall_jumping fired (the tick started
\* with Walljump on the player and a Jump press) the player has no Grounded.
C34_NoWallJumpWhileGrounded ==
    (/\ rev = "components"
     /\ "handle_wall_jumping" \notin todo
     /\ player.Walljump # None
     /\ jumpPressed) => player.Grounded = None

\* C35: at every tick boundary the gravity scale is 0 exactly when LedgeGrab
\* is on the player, and 1 otherwise.
C35_GravityFollowsLedgeGrab ==
    AtTickStart =>
        /\ gravity \in {0, 1}
        /\ gravity = 0 <=> player.LedgeGrab # None

\* C35 happens: a tick starts with the player hanging on the ledge without
\* gravity.
C35_Witness ==
    /\ AtTickStart
    /\ player.LedgeGrab # None
    /\ gravity = 0

\* The Jump press of this tick made handle_ledge_grab climb the ledge, and
\* made handle_wall_jumping jump from the wall.
LedgeClimbed == player.LedgeGrab # None /\ jumpPressed /\ moved # None
WallJumped == player.Walljump # None /\ jumpPressed /\ "handle_wall_jumping" \notin todo

\* C40: one Jump press triggers at most one of ground jump, wall jump and
\* ledge climb: at the end of a tick in which the press caused a ledge climb
\* or a wall jump it is not left buffered for a later ground jump, and no
\* tick has both a ground jump and a wall jump.
C40_OneActionPerPress ==
    (rev = "components" /\ todo = {}) =>
        /\ (LedgeClimbed \/ WallJumped) => ~jump.jump_buffered
        /\ ~(WallJumped /\ tick.jumped # None)

----------------------------------------------------------------------------
(* camera.rs *)

HitSteps == 2    \* the ray's time of impact is a multiple of max_distance / HitSteps

\* sin and cos of a multiple of 45 degrees, in thousandths.
Sin1000(a) ==
    CASE a % 360 = 0 -> 0      [] a % 360 = 45 -> 707    [] a % 360 = 90 -> 1000
      [] a % 360 = 135 -> 707  [] a % 360 = 180 -> 0     [] a % 360 = 225 -> -707
      [] a % 360 = 270 -> -1000 [] a % 360 = 315 -> -707
Cos1000(a) == Sin1000(a + 90)

\* Transform::forward() of a transform whose rotation is rotate_y(angle) of
\* the identity: the image of -Z.
Forward(angle) == <<-Sin1000(angle), 0, -Cos1000(angle)>>

desired_y_height_full(c, m) == c.y_distance

desired_y_height(c, m) ==
    IF m < 50 THEN c.y_distance \div 2 ELSE c.y_distance

desired_z_distance(c, m) ==
    IF m < 100 THEN c.z_distance ELSE (c.z_distance * 3) \div 2

desired_easing_speed(c) ==
    IF c.mode.tag = "Normal"
    THEN IF c.blocked_by_a_wall THEN (c.easing * 5) \div 2 ELSE c.easing
    ELSE c.easing * 5

\* update_camera_target_position up to the ray: the position the camera wants.
desired_position(c, translation, m) ==
    VAdd(VAdd(translation, VScale(Forward(c.angle), desired_z_distance(c, m))),
         VScale(Y, 1000 * desired_y_height(c, m)))

\* intersection.point of a hit at t / HitSteps of the way from the player to
\* the desired position: ray_pos + ray_dir * toi.
RayPoint(from, to, t) ==
    <<from[1] + ((to[1] - from[1]) * t) \div HitSteps,
      from[2] + ((to[2] - from[2]) * t) \div HitSteps,
      from[3] + ((to[3] - from[3]) * t) \div HitSteps>>

update_camera_target_position_unclamped(c, translation, m, toi) ==
    [c EXCEPT !.player_position = translation,
              !.target_position = desired_position(c, translation, m)]

\* toi is what cast_ray_and_get_normal returns: None, or the step of the hit.
update_camera_target_position(c, translation, m, toi) ==
    LET desired == desired_position(c, translation, m)
    IN  [c EXCEPT !.player_position = translation,
                  !.target_position = IF toi # None
                                      THEN RayPoint(translation, desired, toi[1])
                                      ELSE desired]

\* The lerp that lerp_to_camera_position applies to the camera's translation:
\* its goal and its factor time.delta_seconds() * desired_easing_speed(), in
\* twentieths.
lerp_to_camera_position(c, delta) ==
    [to |-> IF c.mode.tag = "Normal" THEN c.target_position ELSE c.mode.position,
     look_at |-> IF c.mode.tag = "Normal" THEN c.player_position
                 ELSE c.mode.look_target,
     by |-> delta * desired_easing_speed(c)]

rotate_camera_unwrapped(c, left, right) ==
    LET a1 == IF left THEN c.angle - 45 ELSE c.angle
        a2 == IF right THEN a1 + 45 ELSE a1
    IN  [c EXCEPT !.angle = a2]

rotate_camera(c, left, right) ==
    LET a1 == IF left THEN c.angle - 45 ELSE c.angle
        a2 == IF right THEN a1 + 45 ELSE a1
        a3 == IF a2 > 360 THEN a2 - 360 ELSE a2
        a4 == IF a3 < -360 THEN a3 + 360 ELSE a3
    IN  [c EXCEPT !.angle = a4]

debug_change_camera_mode(c, pressed) ==
    IF pressed
    THEN IF c.mode.tag = "Normal"
         THEN [c EXCEPT !.mode = Fixed(<<0, 30 * PosUnit, -20 * PosUnit>>, Zero)]
         ELSE [c EXCEPT !.mode = Normal]
    ELSE c

\* What the camera's systems read of the player in a tick.
Translations == {Zero, <<1 * PosUnit, 0, -2 * PosUnit>>}
Momenta == {49, 50, 99, 100}
RayResults == {None} \cup {Some(t) : t \in 0..HitSteps}

CamSystems == {"update_camera_target_position", "lerp_to_camera_position",
               "rotate_camera", "debug_change_camera_mode"}

\* CameraControlPlugin::build orders only lerp_to_camera_position after
\* update_camera_target_position. rotate_camera writes the angle that only
\* update_camera_target_position reads, and debug_change_camera_mode the mode
\* that only lerp_to_camera_position reads: these two pairs run in both
\* orders, and the systems that commute with rotate_camera run after it.
CamMayRun(sys) ==
    /\ sys \in todo
    /\ sys = "lerp_to_camera_position" => "update_camera_target_position" \notin todo
    /\ sys \in {"lerp_to_camera_position", "debug_change_camera_mode"} =>
          "rotate_camera" \notin todo

\* The movement code at rest: the camera's systems do not touch it.
MovementIdle ==
    /\ rev = "components"
    /\ jump = JumpDefault
    /\ lastOp = [op |-> "new", ret |-> None, pre |-> JumpDefault,
                 prePresses |-> 0, prePending |-> FALSE, preAcc |-> 0]
    /\ chain = <<>>
    /\ chainValid = TRUE
    /\ presses = 0
    /\ pending = FALSE
    /\ acc = 0
    /\ airPress = FALSE
    /\ grabPressed = FALSE
    /\ grounded = GroundedDefault
    /\ linvel = Kept
    /\ facing = None
    /\ momentum = None
    /\ moved = None
    /\ touching = {}
    /\ friction = 1
    /\ gravity = 1
    /\ player = NoMarkers
    /\ cmds = NoCmds
    /\ jumpPressed = FALSE
    /\ drift = Zero
    /\ tick = [stage0 |-> "Single", jumped |-> None]
    /\ seen = None

movement == <<jvars, grounded, linvel, facing, touching, jumpPressed, tick, seen,
              player, cmds, friction, gravity, momentum, moved, drift, airPress,
              grabPressed, wvars>>

CamInit ==
    /\ MovementIdle
    /\ OthersInit
    /\ dt \in 1..MaxFrame
    /\ todo = CamSystems

UpdateCameraTargetPosition ==
    /\ CamMayRun("update_camera_target_position")
    /\ \E translation \in Translations, m \in Momenta, toi \in RayResults :
          /\ camera' = update_camera_target_position(camera, translation, m, toi)
          /\ shot' = Some([translation |-> translation, momentum |-> m, toi |-> toi])
    /\ todo' = todo \ {"update_camera_target_position"}
    /\ UNCHANGED <<movement, dt, speed, since, moving>>

LerpToCameraPosition ==
    /\ CamMayRun("lerp_to_camera_position")
    /\ shot' = Some(lerp_to_camera_position(camera, dt))
    /\ todo' = todo \ {"lerp_to_camera_position"}
    /\ UNCHANGED <<movement, dt, camera, speed, since, moving>>

RotateCamera ==
    /\ CamMayRun("rotate_camera")
    /\ \E left \in BOOLEAN, right \in BOOLEAN :
          /\ camera' = rotate_camera(camera, left, right)
          /\ shot' = Some([left |-> left, right |-> right, angle |-> camera.angle])
    /\ todo' = todo \ {"rotate_camera"}
    /\ UNCHANGED <<movement, dt, speed, since, moving>>

DebugChangeCameraMode ==
    /\ CamMayRun("debug_change_camera_mode")
    /\ \E pressed \in BOOLEAN :
          /\ camera' = debug_change_camera_mode(camera, pressed)
          /\ shot' = Some([pressed |-> pressed])
    /\ todo' = todo \ {"debug_change_camera_mode"}
    /\ UNCHANGED <<movement, dt, speed, since, moving>>

CamEndTick ==
    /\ todo = {}
    /\ todo' = CamSystems
    /\ dt' \in 1..MaxFrame
    /\ shot' = None
    /\ UNCHANGED <<movement, camera, speed, since, moving>>

CamNext ==
    \/ UpdateCameraTargetPosition
    \/ LerpToCameraPosition
    \/ RotateCamera
    \/ DebugChangeCameraMode
    \/ CamEndTick

SpecCamera == CamInit /\ [][CamNext]_vars

\* C16: when update_camera_target_position runs, a ray that hits leaves
\* target_position at the hit point, which is not the desired position unless
\* the hit is at the ray's full length; a ray that hits nothing leaves
\* target_position at the desired position.
C16_CameraClamp ==
    [][Runs("update_camera_target_position") =>
          LET s == shot'[1]
              desired == desired_position(camera, s.translation, s.momentum)
          IN  /\ camera'.player_position = s.translation
              /\ s.toi # None =>
                    /\ camera'.target_position =
                           RayPoint(s.translation, desired, s.toi[1])
                    /\ s.toi[1] < HitSteps => camera'.target_position # desired
              /\ s.toi = None => camera'.target_position = desired]_vars

\* C16 witness: the ray from <<1, 0, -2>> toward the desired position of a
\* camera at angle 0 and momentum 10.0 has just hit halfway.
C16_Witness ==
    /\ shot = Some([translation |-> <<1 * PosUnit, 0, -2 * PosUnit>>,
                    momentum |-> 100, toi |-> Some(1)])
    /\ camera.angle = 0
    /\ camera.target_position = <<10000, 35000, -95000>>

\* C17: when update_camera_target_position runs, it leaves blocked_by_a_wall
\* true exactly if its ray hit, so that the easing speed of the Normal mode is
\* 2.5 * easing exactly then.
C17_BlockedFlagFollowsRay ==
    [][Runs("update_camera_target_position") =>
          /\ camera'.blocked_by_a_wall <=> shot'[1].toi # None
          /\ camera'.mode.tag = "Normal" =>
                desired_easing_speed(camera') =
                    IF shot'[1].toi # None THEN 10 ELSE 4]_vars

\* C18: the angle starts at 0 and every rotate_camera step moves it by -45 for
\* CameraLeft and +45 for CameraRight (both in one tick cancel), then
\* subtracts 360 if the result is above 360 and adds 360 if it is below -360;
\* the angle stays within [-360, 360].
C18_AngleWraps ==
    [][/\ Runs("rotate_camera") =>
             LET s == shot'[1]
                 stepped == camera.angle - (IF s.left THEN 45 ELSE 0)
                                         + (IF s.right THEN 45 ELSE 0)
             IN  camera'.angle = IF stepped > 360 THEN stepped - 360
                                 ELSE IF stepped < -360 THEN stepped + 360
                                 ELSE stepped
       /\ ~Runs("rotate_camera") => camera'.angle = camera.angle
       /\ camera.angle \in -360..360 => camera'.angle \in -360..360]_vars

\* C18 witness: a CameraRight press at the angle 360 has just wrapped to 45.
C18_Witness ==
    /\ shot = Some([left |-> FALSE, right |-> TRUE, angle |-> 360])
    /\ camera.angle = 45

\* C19: for every momentum m (in tenths), desired_z_distance is z_distance =
\* 10.0 below 10.0 and 15.0 from 10.0 on, desired_y_height is y_distance / 2 =
\* 3.5 below 5.0 and y_distance = 7.0 from 5.0 on, whatever the state of the
\* camera; the desired position that update_camera_target_position computes
\* is built from exactly these values.
C19_DesiredDistances ==
    [][/\ \A m \in Momenta :
             /\ desired_z_distance(camera', m) = IF m < 100 THEN 100 ELSE 150
             /\ desired_y_height(camera', m) = IF m < 50 THEN 35 ELSE 70
       /\ (Runs("update_camera_target_position") /\ shot'[1].toi = None) =>
             LET s == shot'[1]
             IN  camera'.target_position =
                    VAdd(VAdd(s.translation,
                              VScale(Forward(camera.angle),
                                     IF s.momentum < 100 THEN 100 ELSE 150)),
                         VScale(Y, 1000 * (IF s.momentum < 50 THEN 35 ELSE 70)))]_vars

\* C19 witness: at the momentum 5.0 exactly and the angle 0, an unobstructed
\* camera has just been sent to the height 7.0 and the distance 10.0.
C19_Witness ==
    /\ shot = Some([translation |-> Zero, momentum |-> 50, toi |-> None])
    /\ camera.angle = 0
    /\ camera.target_position = <<0, 70000, -100000>>

----------------------------------------------------------------------------
(* PlayerSpeed, player/movement/locomotion.rs *)

LongFrame == 12    \* the longest frame of the speed model, in time units

\* The frame times of the speed model: a short frame, a slow one and a hitch.
SpeedFrames == {1, 4, LongFrame}

speed_reset_keeps_timer(s) == [s EXCEPT !.current_speed = s.base_speed]

speed_reset(s) == [s EXCEPT !.current_speed = s.base_speed, !.accel_timer = 0]

\* time.delta_seconds() * acceleration is delta * acceleration / 20.
accelerate(s, delta) ==
    LET t == TimerTick(s.accel_timer, delta, AccelTime)
    IN  IF TimerFinished(t, AccelTime)
        THEN [s EXCEPT !.accel_timer = t,
                       !.current_speed =
                           IF s.current_speed + 300 <= s.top_speed
                           THEN s.current_speed +
                                ((s.top_speed - s.current_speed) *
                                 (delta * s.acceleration)) \div 20
                           ELSE s.top_speed]
        ELSE [s EXCEPT !.accel_timer = t]

handle_player_acceleration(s, is_moving, delta) ==
    IF is_moving THEN accelerate(s, delta) ELSE speed_reset(s)

SpeedInit ==
    /\ MovementIdle
    /\ OthersInit
    /\ dt = 1
    /\ todo = {}

\* One tick of handle_player_acceleration: dt is the frame time it saw.
HandlePlayerAcceleration ==
    /\ \E delta \in SpeedFrames, is_moving \in BOOLEAN :
          /\ dt' = delta
          /\ moving' = is_moving
          /\ speed' = handle_player_acceleration(speed, is_moving, delta)
          /\ since' = IF is_moving THEN Min(since + delta, AccelTime) ELSE 0
    /\ UNCHANGED <<movement, todo, camera, shot>>

SpeedNext == HandlePlayerAcceleration

SpecSpeed == SpeedInit /\ [][SpeedNext]_vars

\* C20: an accelerate call leaves current_speed unchanged as long as the frame
\* times of the accelerate calls since the last reset, this one included, stay
\* below 1.5 s (30 units); a reset leaves current_speed at base_speed 7.5 and
\* the timer at 0, so that the count starts again.
C20_AccelerateDebounced ==
    [][/\ (moving' /\ since + dt' < AccelTime) =>
             speed'.current_speed = speed.current_speed
       /\ ~moving' => speed'.current_speed = 7500 /\ speed'.accel_timer = 0
       /\ speed'.accel_timer = since']_vars

\* C20 witness: accelerate calls of 1.4 s in all have left the speed at 7.5.
C20_Witness ==
    /\ moving
    /\ since = 28
    /\ speed.accel_timer = 28
    /\ speed.current_speed = 7500

\* C21: after every sequence of accelerate and reset calls the current speed
\* is between base_speed and top_speed: base_speed <= current_speed <= 15.0.
C21_SpeedWithinBounds ==
    /\ speed.base_speed <= speed.current_speed
    /\ speed.current_speed <= speed.top_speed

----------------------------------------------------------------------------
(* Wind zones and the outside force, main.rs *)

\* The orders in which zone_query can yield the wind zones.
ZoneOrders == {<<"zone1", "zone2">>, <<"zone2", "zone1">>}

\* What transform.forward() of the movable entity can be, in thousandths.
Forwards == {<<0, 0, -1000>>, <<707, 0, -707>>}

\* handle_wind_zones: the Commands it queues. For each zone, in the order
\* of the query, intersections_with yields the pair of the zone and the
\* movable entity if rapier has one, with whether the two intersect;
\* has_force is the component as the query reads it, which the Commands
\* queued in this tick have not changed.
RECURSIVE handle_wind_zones(_, _, _)
handle_wind_zones(has_force, intersections, order) ==
    IF order = <<>> THEN <<>>
    ELSE LET zone_entity == Head(order)
             intersecting == intersections[zone_entity] = "inside"
             rest == handle_wind_zones(has_force, intersections, Tail(order))
         IN  IF intersections[zone_entity] = "none" THEN rest
             ELSE IF has_force = None /\ intersecting
                  THEN <<[op |-> "insert", value |-> WindZone(zone_entity)]>> \o rest
             ELSE IF has_force # None /\ ~intersecting
                  THEN <<[op |-> "remove", value |-> Zero]>> \o rest
             ELSE rest

\* The OutsideForce component after the queued Commands have been applied.
RECURSIVE ApplyForceCommands(_, _)
ApplyForceCommands(f, q) ==
    IF q = <<>> THEN f
    ELSE ApplyForceCommands(IF Head(q).op = "insert" THEN Some(Head(q).value)
                            ELSE None, Tail(q))

move_player_from_rotation_whole(has_force, is_moving, forward, current) ==
    LET pushed == IF has_force = None THEN Zero
                  ELSE <<has_force[1][1], 0, has_force[1][3]>>
        speed_to_apply ==
            IF is_moving
            THEN VAdd(pushed, <<(forward[1] * current) \div 1000,
                                (forward[2] * current) \div 1000,
                                (forward[3] * current) \div 1000>>)
            ELSE pushed
    IN  IF has_force # None \/ is_moving THEN Wrote(speed_to_apply) ELSE Kept

\* move_player_from_rotation: what it writes to Velocity.linvel.
move_player_from_rotation(has_force, is_moving, forward, current) ==
    LET pushed == IF has_force = None THEN Zero
                  ELSE <<has_force[1][1], 0, has_force[1][3]>>
        speed_to_apply ==
            IF is_moving
            THEN VAdd(pushed, <<(forward[1] * current) \div 1000,
                                (forward[2] * current) \div 1000,
                                (forward[3] * current) \div 1000>>)
            ELSE pushed
        should_change_velocity == has_force # None \/ is_moving
    IN  IF should_change_velocity
        THEN <<Some(speed_to_apply[1]), None, Some(speed_to_apply[3])>>
        ELSE Kept

WindSystems == {"handle_wind_zones", "move_player_from_rotation"}

\* What the systems of this section leave alone.
windFixed == <<jvars, grounded, facing, touching, jumpPressed, tick, seen, player, cmds,
               friction, gravity, momentum, moved, drift, airPress, grabPressed,
               dt, camera, shot, speed, since, player_ideas, crafted, gvars>>

WindInit ==
    /\ MovementIdle
    /\ OthersInit
    /\ dt = 1
    /\ todo = WindSystems

HandleWindZones ==
    /\ "handle_wind_zones" \in todo
    /\ todo' = todo \ {"handle_wind_zones"}
    /\ \E order \in ZoneOrders : queued' = handle_wind_zones(force, pairs, order)
    /\ UNCHANGED <<windFixed, force, pairs, moving, linvel>>

MovePlayerFromRotation ==
    /\ "move_player_from_rotation" \in todo
    /\ todo' = todo \ {"move_player_from_rotation"}
    /\ \E forward \in Forwards :
          linvel' = move_player_from_rotation(force, moving, forward, speed.current_speed)
    /\ UNCHANGED <<windFixed, force, pairs, moving, queued>>

\* The end of the tick: the Commands are applied, and the next tick starts
\* with what the physics step and the input give it.
WindEndTick ==
    /\ todo = {}
    /\ todo' = WindSystems
    /\ force' = ApplyForceCommands(force, queued)
    /\ queued' = <<>>
    /\ pairs' \in [Zones -> {"none", "apart", "inside"}]
    /\ moving' \in BOOLEAN
    /\ linvel' = Kept
    /\ UNCHANGED windFixed

WindNext == HandleWindZones \/ MovePlayerFromRotation \/ WindEndTick

SpecWind == WindInit /\ [][WindNext]_vars

\* C22: move_player_from_rotation never writes velocity.y; it writes
\* velocity.x and velocity.z only when an OutsideForce is attached or the
\* direction is nonzero, and with neither it leaves the whole velocity as
\* it was.
C22_MoveWritesOnlyXZ ==
    "move_player_from_rotation" \notin todo =>
        /\ linvel[2] = None
        /\ (linvel[1] # None \/ linvel[3] # None) => (force # None \/ moving)
        /\ (force = None /\ ~moving) => linvel = Kept

\* C22 happens: the entity is pushed by a force with an upward part while it
\* moves, and only x and z were written.
C22_Witness ==
    /\ "move_player_from_rotation" \notin todo
    /\ force = Some(WindZone("zone2"))
    /\ moving
    /\ linvel[1] # None /\ linvel[2] = None /\ linvel[3] # None

\* The movable entity intersects at least one wind zone.
Overlapping(intersections) == \E z \in Zones : intersections[z] = "inside"

\* C23: a movable entity that keeps overlapping a wind zone carries an
\* OutsideForce on every tick: at the end of a tick in which it overlapped a
\* zone, and with a zone still overlapped in the next tick, it has the force,
\* whatever pairs it has with the other zones.
C23_ForceWhileOverlapping ==
    [][(todo = {} /\ Overlapping(pairs) /\ Overlapping(pairs')) => force' # None]_vars

----------------------------------------------------------------------------
(* Ideas and creations, ideas.rs *)

MaxIdeas == 4    \* the longest list given to CreationType::from_ideas
MaxOwned == 3    \* how many ideas the player can own
MaxSpend == 2    \* the longest list given to spend_ideas
MaxWrapped == 2  \* how far below usize::MAX current_index is followed

IdeaLists(n) == UNION {[1..k -> Idea] : k \in 0..n}

\* ideas.sort_by(partial_cmp): a stable sort by the derived order.
RECURSIVE InsertSorted(_, _)
InsertSorted(sorted, i) ==
    IF sorted = <<>> THEN <<i>>
    ELSE IF IdeaOrd(i) < IdeaOrd(Head(sorted)) THEN <<i>> \o sorted
    ELSE <<Head(sorted)>> \o InsertSorted(Tail(sorted), i)

RECURSIVE SortedPrefix(_, _)
SortedPrefix(ideas, n) ==
    IF n = 0 THEN <<>> ELSE InsertSorted(SortedPrefix(ideas, n - 1), ideas[n])

sort_by_unsorted(ideas) == ideas

sort_by(ideas) == SortedPrefix(ideas, Len(ideas))

\* Vec::dedup: consecutive equal elements are removed.
RECURSIVE dedup(_)
dedup(ideas) ==
    IF Len(ideas) <= 1 THEN ideas
    ELSE IF ideas[1] = ideas[2] THEN dedup(Tail(ideas))
    ELSE <<Head(ideas)>> \o dedup(Tail(ideas))

from_ideas_first_only(list) ==
    LET ideas == dedup(sort_by(list))
    IN  IF Len(ideas) = 0 THEN None
        ELSE IF ideas[1] = "Cube" THEN Some("Crate")
        ELSE IF ideas[1] = "Spring" THEN Some("PogoStick")
        ELSE None

\* CreationType::from_ideas
from_ideas(list) ==
    LET ideas == dedup(sort_by(list))
        idea_count == Len(ideas)
    IN  IF idea_count > 3 THEN None
        ELSE IF idea_count = 2
             THEN IF ideas[1] = "Cube" /\ ideas[2] = "Spring"
                  THEN Some("Launcher") ELSE None
        ELSE IF idea_count = 1
             THEN IF ideas[1] = "Cube" THEN Some("Crate")
                  ELSE IF ideas[1] = "Spring" THEN Some("PogoStick")
                  ELSE None
        ELSE None

\* Vec::remove(index)
RemoveAt(s, index) == SubSeq(s, 1, index - 1) \o SubSeq(s, index + 1, Len(s))

\* iter().position(|x| *x == idea): the first index, None if there is none.
Position(s, idea) ==
    IF \E k \in 1..Len(s) : s[k] = idea
    THEN Some(CHOOSE k \in 1..Len(s) : s[k] = idea /\ \A j \in 1..(k - 1) : s[j] # idea)
    ELSE None

\* spend_ideas returns: unwrap() does not panic on any idea of the list.
RECURSIVE CanSpend(_, _)
CanSpend(available, ideas_to_spend) ==
    IF ideas_to_spend = <<>> THEN TRUE
    ELSE IF Position(available, Head(ideas_to_spend)) = None THEN FALSE
    ELSE CanSpend(RemoveAt(available, Position(available, Head(ideas_to_spend))[1]),
                  Tail(ideas_to_spend))

RECURSIVE SpendFrom(_, _)
SpendFrom(available, ideas_to_spend) ==
    IF ideas_to_spend = <<>> THEN available
    ELSE SpendFrom(RemoveAt(available, Position(available, Head(ideas_to_spend))[1]),
                   Tail(ideas_to_spend))

spend_ideas_every_copy(p, ideas_to_spend) ==
    [p EXCEPT !.available_ideas =
        SelectSeq(p.available_ideas,
                  LAMBDA x : \A k \in 1..Len(ideas_to_spend) : ideas_to_spend[k] # x)]

spend_ideas(p, ideas_to_spend) ==
    [p EXCEPT !.available_ideas = SpendFrom(p.available_ideas, ideas_to_spend)]

recall_all_ideas(p) == [p EXCEPT !.available_ideas = p.ideas]

get_idea(p, idea) ==
    [p EXCEPT !.ideas = Append(p.ideas, idea),
              !.available_ideas = Append(p.available_ideas, idea)]

\* usize::MAX. TLC's integers are 32 bits wide, so the largest of them stands
\* for 2^64 - 1: all that the code uses of it is that it exceeds every length.
USIZE_MAX == 2147483647

\* usize subtraction and addition in a build without overflow checks.
wrapping_sub(a, b) == IF a >= b THEN a - b ELSE USIZE_MAX - (b - a) + 1
wrapping_add(a, b) == IF a <= USIZE_MAX - b THEN a + b ELSE b - (USIZE_MAX - a) - 1

\* The builds: overflow checks on (arithmetic overflow panics) or off (wraps).
Builds == {"checked", "unchecked"}

\* A call that panicked leaves the resource as it was and ends the program.
Panic == [panic |-> TRUE]

\* scroll_forward: Panic, or the resource after the call.
scroll_forward(p) ==
    IF build = "checked" /\ (p.current_index = USIZE_MAX \/ Len(p.available_ideas) = 0)
    THEN Panic
    ELSE LET new_index == wrapping_add(p.current_index, 1)
         IN  IF new_index > wrapping_sub(Len(p.available_ideas), 1)
             THEN [p EXCEPT !.current_index = 0]
             ELSE [p EXCEPT !.current_index = new_index]

\* scroll_backward
scroll_backward(p) ==
    IF p.current_index = 0
    THEN IF build = "checked" /\ Len(p.available_ideas) = 0
         THEN Panic
         ELSE [p EXCEPT !.current_index = wrapping_sub(Len(p.available_ideas), 1)]
    ELSE [p EXCEPT !.current_index = p.current_index - 1]

\* recall_ideas
recall_ideas(p, ideas_to_recall) ==
    [p EXCEPT !.available_ideas = p.available_ideas \o ideas_to_recall]

\* load_idea: Vec::remove panics in every build when the index is not below
\* the length.
load_idea(p) ==
    IF Len(p.available_ideas) > 0
    THEN IF p.current_index >= Len(p.available_ideas)
         THEN Panic
         ELSE LET idea_to_load == p.available_ideas[p.current_index + 1]
                  q == [p EXCEPT !.available_ideas =
                                     RemoveAt(p.available_ideas, p.current_index + 1),
                                 !.loaded_ideas = Append(p.loaded_ideas, idea_to_load)]
              IN  IF Len(q.available_ideas) > 0
                  THEN scroll_backward(q)
                  ELSE [q EXCEPT !.current_index = 0]
    ELSE p

\* The reverse of a list.
RECURSIVE Reversed(_)
Reversed(s) == IF s = <<>> THEN <<>> ELSE Append(Reversed(Tail(s)), Head(s))

\* unload_ideas: the loaded ideas are popped from the back and pushed.
unload_ideas(p) ==
    [p EXCEPT !.available_ideas = p.available_ideas \o Reversed(p.loaded_ideas),
              !.loaded_ideas = <<>>]

\* get_current_idea_tag: indexing panics when the index is not below the
\* length (the panic is the pair that is neither None nor Some of an idea).
IndexPanic == <<"panic", "index out of bounds">>

get_current_idea_tag(p) ==
    IF Len(p.available_ideas) > 0
    THEN IF p.current_index >= Len(p.available_ideas)
         THEN IndexPanic
         ELSE Some(p.available_ideas[p.current_index + 1])
    ELSE None

\* What the calls of this section leave alone.
ideasFixed == <<jvars, tvars, player, cmds, friction, gravity, momentum, moved, drift,
                airPress, grabPressed, dt, camera, shot, speed, since, moving, force,
                pairs, queued, gvars>>

IdeasInit ==
    /\ MovementIdle
    /\ OthersInit
    /\ dt = 1
    /\ todo = {}

SpendIdeas ==
    /\ \E ideas_to_spend \in IdeaLists(MaxSpend) :
          /\ CanSpend(player_ideas.available_ideas, ideas_to_spend)
          /\ player_ideas' = spend_ideas(player_ideas, ideas_to_spend)
          /\ crafted' = [op |-> "spend_ideas", ideas |-> ideas_to_spend, ret |-> None]
    /\ UNCHANGED ideasFixed

RecallAllIdeas ==
    /\ player_ideas' = recall_all_ideas(player_ideas)
    /\ crafted' = [op |-> "recall_all_ideas", ideas |-> <<>>, ret |-> None]
    /\ UNCHANGED ideasFixed

GetIdea ==
    /\ Len(player_ideas.ideas) < MaxOwned
    /\ \E idea \in Idea :
          /\ player_ideas' = get_idea(player_ideas, idea)
          /\ crafted' = [op |-> "get_idea", ideas |-> <<idea>>, ret |-> None]
    /\ UNCHANGED ideasFixed

IdeasNext == SpendIdeas \/ RecallAllIdeas \/ GetIdea

SpecIdeas == IdeasInit /\ [][IdeasNext]_vars

\* Every method of PlayerIdeas that changes current_index or available_ideas,
\* called in any order, in a build of either kind. cycle_ideas,
\* load_current_idea and unload_ideas call the first four on a press.
Panicked == crafted.ret = Some("panic")

Called(op, ideas, result) ==
    /\ ~Panicked
    /\ crafted' = [op |-> op, ideas |-> ideas,
                   ret |-> IF result = Panic THEN Some("panic") ELSE None]
    /\ player_ideas' = IF result = Panic THEN player_ideas ELSE result
    /\ UNCHANGED ideasFixed

ScrollInit ==
    /\ MovementIdle
    /\ SceneInit
    /\ build \in Builds
    /\ crafted = [op |-> "with_ideas", ideas |-> <<"Cube", "Spring">>, ret |-> None]
    /\ dt = 1
    /\ todo = {}

\* A build without overflow checks counts current_index up past the end of
\* an empty list and down from usize::MAX: it is followed for MaxWrapped steps
\* of either.
Followed ==
    \/ player_ideas.current_index < MaxOwned + MaxWrapped
    \/ player_ideas.current_index > USIZE_MAX - MaxWrapped

ScrollForward ==
    /\ Followed
    /\ Called("scroll_forward", <<>>, scroll_forward(player_ideas))

ScrollBackward ==
    /\ Followed
    /\ Called("scroll_backward", <<>>, scroll_backward(player_ideas))

LoadIdea == Called("load_idea", <<>>, load_idea(player_ideas))

UnloadIdeas == Called("unload_ideas", <<>>, unload_ideas(player_ideas))

RecallIdeas ==
    \E ideas_to_recall \in IdeaLists(MaxSpend) :
        /\ Len(player_ideas.available_ideas) + Len(player_ideas.loaded_ideas)
              + Len(ideas_to_recall) <= MaxOwned
        /\ Called("recall_ideas", ideas_to_recall,
                  recall_ideas(player_ideas, ideas_to_recall))

ScrollSpendIdeas ==
    \E ideas_to_spend \in IdeaLists(MaxSpend) :
        /\ CanSpend(player_ideas.available_ideas, ideas_to_spend)
        /\ Called("spend_ideas", ideas_to_spend, spend_ideas(player_ideas, ideas_to_spend))

ScrollGetIdea ==
    \E idea \in Idea :
        /\ Len(player_ideas.ideas) < MaxOwned
        /\ Len(player_ideas.available_ideas) + Len(player_ideas.loaded_ideas) < MaxOwned
        /\ Called("get_idea", <<idea>>, get_idea(player_ideas, idea))

ScrollNext ==
    \/ ScrollForward
    \/ ScrollBackward
    \/ LoadIdea
    \/ UnloadIdeas
    \/ RecallIdeas
    \/ ScrollSpendIdeas
    \/ ScrollGetIdea

SpecScroll == ScrollInit /\ [][ScrollNext]_vars

\* C39: after any sequence of scroll_forward, scroll_backward, load_idea,
\* unload_ideas, spend_ideas, recall_ideas and get_idea calls, no call has
\* panicked on an underflow or an index out of bounds, and current_index is a
\* valid index into available_ideas when that list is not empty and 0 when it
\* is, so that get_current_idea_tag does not panic either.
C39_CurrentIndexValid ==
    /\ ~Panicked
    /\ get_current_idea_tag(player_ideas) # IndexPanic
    /\ IF Len(player_ideas.available_ideas) > 0
       THEN player_ideas.current_index < Len(player_ideas.available_ideas)
       ELSE player_ideas.current_index = 0

\* CreationType::from_ideas on every list of at most MaxIdeas ideas.
CreationInit ==
    /\ MovementIdle
    /\ ResourcesInit
    /\ dt = 1
    /\ todo = {}
    /\ \E list \in IdeaLists(MaxIdeas) :
          crafted = [op |-> "vec", ideas |-> list, ret |-> None]

FromIdeas ==
    /\ crafted.op = "vec"
    /\ crafted' = [crafted EXCEPT !.op = "from_ideas", !.ret = from_ideas(crafted.ideas)]
    /\ UNCHANGED <<ideasFixed, player_ideas>>

CreationNext == FromIdeas

SpecCreation == CreationInit /\ [][CreationNext]_vars

\* The distinct ideas of a list.
IdeaSet(list) == {list[k] : k \in 1..Len(list)}

\* C24: from_ideas depends only on the set of distinct ideas given: {Cube}
\* gives Crate, {Spring} gives PogoStick, {Cube, Spring} gives Launcher and
\* every other set gives None.
C24_FromIdeasBySet ==
    crafted.op = "from_ideas" =>
        crafted.ret = CASE IdeaSet(crafted.ideas) = {"Cube"} -> Some("Crate")
                        [] IdeaSet(crafted.ideas) = {"Spring"} -> Some("PogoStick")
                        [] IdeaSet(crafted.ideas) = {"Cube", "Spring"} -> Some("Launcher")
                        [] OTHER -> None

\* C24 happens: a list with Cube and Spring in the other order and repeated
\* gives a Launcher.
C24_Witness ==
    /\ crafted.op = "from_ideas"
    /\ crafted.ideas = <<"Spring", "Cube", "Spring">>
    /\ crafted.ret = Some("Launcher")

\* How often an idea occurs in a list.
Occurrences(list, idea) == Cardinality({k \in 1..Len(list) : list[k] = idea})

\* The orderings of a list.
Orderings(list) ==
    {p \in [1..Len(list) -> IdeaSet(list)] :
        \A idea \in IdeaSet(list) : Occurrences(p, idea) = Occurrences(list, idea)}

\* A list without its repeated ideas: the first occurrence of each is kept.
WithoutRepeats(list) ==
    SelectSeq([k \in 1..Len(list) |->
                  IF \E j \in 1..(k - 1) : list[j] = list[k] THEN "" ELSE list[k]],
              LAMBDA x : x # "")

\* C25: from_ideas is insensitive to duplicates and ordering: its result for
\* a list equals its result for every permutation of the list and for the
\* list with the repeated ideas removed.
C25_FromIdeasIgnoresOrderAndRepeats ==
    crafted.op = "from_ideas" =>
        /\ \A p \in Orderings(crafted.ideas) : from_ideas(p) = crafted.ret
        /\ from_ideas(WithoutRepeats(crafted.ideas)) = crafted.ret

\* C25 happens: Cube, Spring, Cube has a repeat that is not adjacent before
\* the sort, and gives the Launcher that Cube, Spring gives.
C25_Witness ==
    /\ crafted.op = "from_ideas"
    /\ crafted.ideas = <<"Cube", "Spring", "Cube">>
    /\ crafted.ret = Some("Launcher")
    /\ WithoutRepeats(crafted.ideas) = <<"Cube", "Spring">>

\* The first list with one occurrence of each idea of the second removed.
Spent(before, after, ideas_to_spend) ==
    \A idea \in Idea :
        Occurrences(after, idea) + Occurrences(ideas_to_spend, idea) =
            Occurrences(before, idea)

\* C26: spend_ideas removes one occurrence of each spent idea from
\* available_ideas and leaves the owned list as it is; recall_all_ideas,
\* after any sequence of such calls, makes available_ideas the owned list,
\* same elements in the same order.
C26_SpendAndRecallAll ==
    [][/\ crafted'.op = "spend_ideas" =>
            /\ player_ideas'.ideas = player_ideas.ideas
            /\ Spent(player_ideas.available_ideas, player_ideas'.available_ideas,
                     crafted'.ideas)
       /\ crafted'.op = "recall_all_ideas" =>
            /\ player_ideas'.ideas = player_ideas.ideas
            /\ player_ideas'.available_ideas = player_ideas.ideas]_vars

\* C26 happens: one of two owned Cubes was spent and one is still available.
C26_Witness ==
    /\ crafted.op = "spend_ideas"
    /\ crafted.ideas = <<"Cube">>
    /\ player_ideas.ideas = <<"Cube", "Spring", "Cube">>
    /\ player_ideas.available_ideas = <<"Spring", "Cube">>

-----------------------------------------------------------------------------
(* Grabbing and throwing items, player/grabbing.rs *)

MaxDistance == 2   \* the distances between player and item, in units
MaxEvents == 1     \* the collision events of one tick

GrabSensor == "grab_sensor"
Player == "player"

\* HashMap::insert and HashMap::remove
Put(m, k, v) == [x \in DOMAIN m \cup {k} |-> IF x = k THEN v ELSE m[x]]
Drop(m, k) == [x \in DOMAIN m \ {k} |-> m[x]]

\* ItemsInRange::add
add(r, entity, weight, distance) ==
    LET items == Put(r.items, entity, weight)
    IN  IF r.closest_item # None
        THEN IF distance < r.closest_item[1][2]
             THEN [items |-> items, closest_item |-> Some(<<entity, distance>>)]
             ELSE [items |-> items, closest_item |-> r.closest_item]
        ELSE [items |-> items, closest_item |-> Some(<<entity, distance>>)]

\* ItemsInRange::remove
remove(r, entity) == [r EXCEPT !.items = Drop(r.items, entity)]

\* ItemsInRange::is_empty
is_empty(r) == DOMAIN r.items = {}

get_closest_of_map(r) ==
    IF DOMAIN r.items # {}
    THEN LET entity == CHOOSE e \in DOMAIN r.items : TRUE
         IN  [ret |-> Some(<<entity, r.items[entity]>>), self |-> remove(r, entity)]
    ELSE [ret |-> None, self |-> r]

\* ItemsInRange::get_closest: what it returns (ret) and the resource after it.
get_closest(r) ==
    IF r.closest_item # None
    THEN LET entity == r.closest_item[1][1]
         IN  IF entity \in DOMAIN r.items
             THEN [ret |-> Some(<<entity, r.items[entity]>>), self |-> remove(r, entity)]
             ELSE [ret |-> None, self |-> r]
    ELSE [ret |-> None, self |-> r]

\* The marker components of the items: crate1 has MediumItem, crate2 neither
\* HeavyItem nor MediumItem.
ItemMarkers(e) == IF e = "crate1" THEN {"MediumItem"} ELSE {}

\* item_query.contains(entity)
item_query_contains(w, entity) == entity \in Items /\ w.item[entity].Item

\* The ItemDetectionStatus of an event: Some(item) is Hit(item), None is NoHit.
ItemDetectionStatus(w, ev) ==
    IF ev.e1 = GrabSensor /\ item_query_contains(w, ev.e2) THEN Some(ev.e2)
    ELSE IF ev.e2 = GrabSensor /\ item_query_contains(w, ev.e1) THEN Some(ev.e1)
    ELSE None

item_weight_of(e) ==
    IF "HeavyItem" \in ItemMarkers(e) THEN "Heavy"
    ELSE IF "MediumItem" \in ItemMarkers(e) THEN "Medium"
    ELSE "Light"

\* detect_items over the events of the tick: the resource after it. The
\* player query is empty while the player has a HeldItem; the event reader
\* has read the events in either case.
RECURSIVE detect_items(_, _, _)
detect_items(r, w, events) ==
    IF events = <<>> THEN r
    ELSE LET ev == Head(events)
             status == ItemDetectionStatus(w, ev)
             after == IF w.player.HeldItem # None \/ status = None THEN r
                      ELSE IF ev.kind = "Started"
                           THEN add(r, status[1], item_weight_of(status[1]), ev.distance)
                           ELSE remove(r, status[1])
         IN  detect_items(after, w, Tail(events))

\* The distance that detect_items recorded for each item of the map when it
\* added it, 0 for an item that is not in the map.
RECURSIVE RecordedAfter(_, _, _)
RecordedAfter(recorded, w, events) ==
    IF events = <<>> THEN recorded
    ELSE LET ev == Head(events)
             status == ItemDetectionStatus(w, ev)
             after == IF w.player.HeldItem # None \/ status = None THEN recorded
                      ELSE [recorded EXCEPT ![status[1]] =
                               IF ev.kind = "Started" THEN ev.distance ELSE 0]
         IN  RecordedAfter(after, w, Tail(events))

\* Commands
InsertCmd(entity, component, arg) ==
    [entity |-> entity, op |-> "insert", c |-> component, arg |-> arg]
RemoveCmd(entity, component) ==
    [entity |-> entity, op |-> "remove", c |-> component, arg |-> None]
AddChild(entity, child) ==
    [entity |-> entity, op |-> "add_child", c |-> "Parent", arg |-> Some(child)]
RemoveParent(entity) ==
    [entity |-> entity, op |-> "remove_parent", c |-> "Parent", arg |-> None]

WeightMarker(weight) ==
    IF weight = "Heavy" THEN "HeavyItem"
    ELSE IF weight = "Medium" THEN "MediumItem"
    ELSE "LightItem"

\* grab_item: the resource and the world after it, and the commands it queued.
grab_item(r, w, pressed) ==
    IF ~is_empty(r) /\ pressed
    THEN LET got == get_closest(r)
         IN  IF got.ret # None
             THEN LET item_entity == got.ret[1][1]
                      item_weight == got.ret[1][2]
                      marker == <<InsertCmd(Player, WeightMarker(item_weight), None)>>
                  IN  IF item_query_contains(w, item_entity)
                      THEN [r |-> got.self,
                            w |-> [w EXCEPT !.item[item_entity].translation = "held"],
                            cmds |-> marker
                                \o <<AddChild(Player, item_entity),
                                     InsertCmd(Player, "HeldItem", Some(item_entity))>>
                                \o IF w.item[item_entity].RigidBody
                                   THEN <<RemoveCmd(item_entity, "RigidBody"),
                                          RemoveCmd(item_entity, "Collider")>>
                                   ELSE <<>>]
                      ELSE [r |-> got.self, w |-> w, cmds |-> marker]
             ELSE [r |-> got.self, w |-> w, cmds |-> <<>>]
    ELSE [r |-> r, w |-> w, cmds |-> <<>>]

\* throw_item: the commands it queued.
throw_item(w, pressed) ==
    IF w.player.HeldItem # None /\ pressed
    THEN LET item_entity == w.player.HeldItem[1]
         IN  <<RemoveParent(item_entity),
               InsertCmd(item_entity, "ThrownItem", None),
               InsertCmd(item_entity, "RigidBody", None),
               InsertCmd(item_entity, "Collider", None),
               RemoveCmd(Player, "HeldItem")>>
    ELSE <<>>

\* The items that handle_thrown_momentum's query matches.
Thrown(w) == {e \in Items : w.item[e].ThrownItem /\ w.item[e].RigidBody}

\* handle_thrown_momentum: the world after it (each thrown item is put at its
\* throw position) and the commands it queued.
handle_thrown_momentum(w) ==
    [w |-> [w EXCEPT !.item = [e \in Items |->
                IF e \in Thrown(w) THEN [w.item[e] EXCEPT !.translation = "thrown"]
                ELSE w.item[e]]],
     cmds |-> IF "crate1" \in Thrown(w) /\ "crate2" \in Thrown(w)
              THEN <<RemoveCmd("crate1", "ThrownItem"), RemoveCmd("crate2", "ThrownItem")>>
              ELSE IF "crate1" \in Thrown(w) THEN <<RemoveCmd("crate1", "ThrownItem")>>
              ELSE IF "crate2" \in Thrown(w) THEN <<RemoveCmd("crate2", "ThrownItem")>>
              ELSE <<>>]

\* One command applied to the world.
ApplyCommand(w, c) ==
    IF c.entity = Player
    THEN IF c.op = "add_child"
         THEN [w EXCEPT !.player.children = @ \cup {c.arg[1]},
                        !.item[c.arg[1]].parent = TRUE]
         ELSE IF c.c = "HeldItem"
         THEN [w EXCEPT !.player.HeldItem = IF c.op = "insert" THEN c.arg ELSE None]
         ELSE [w EXCEPT !.player.weights = @ \cup {c.c}]
    ELSE IF c.op = "remove_parent"
         THEN [w EXCEPT !.player.children = @ \ {c.entity},
                        !.item[c.entity].parent = FALSE]
         ELSE IF c.c = "RigidBody"
         THEN [w EXCEPT !.item[c.entity].RigidBody = (c.op = "insert")]
         ELSE IF c.c = "Collider"
         THEN [w EXCEPT !.item[c.entity].Collider = (c.op = "insert")]
         ELSE [w EXCEPT !.item[c.entity].ThrownItem = (c.op = "insert")]

RECURSIVE ApplyCommands(_, _)
ApplyCommands(w, commands) ==
    IF commands = <<>> THEN w
    ELSE ApplyCommands(ApplyCommand(w, Head(commands)), Tail(commands))

\* PlayerGrabbingPlugin::build: grab_item runs after detect_items and
\* handle_thrown_momentum after throw_item; no other order is given.
GrabSystems == {"detect_items", "grab_item", "throw_item", "handle_thrown_momentum"}

GrabMayRun(sys) ==
    /\ sys \in todo
    /\ sys = "grab_item" => "detect_items" \notin todo
    /\ sys = "handle_thrown_momentum" => "throw_item" \notin todo

\* The orders in which the command queues of the systems can be applied.
GrabOrders ==
    {ord \in [1..4 -> GrabSystems] :
        /\ \A s \in GrabSystems : \E k \in 1..4 : ord[k] = s
        /\ \A j, k \in 1..4 :
              /\ (ord[j] = "detect_items" /\ ord[k] = "grab_item") => j < k
              /\ (ord[j] = "throw_item" /\ ord[k] = "handle_thrown_momentum") => j < k}

\* The command queues of the systems (each system has its own) in the order
\* ord of the systems.
RECURSIVE InOrder(_, _)
InOrder(queues, ord) ==
    IF ord = <<>> THEN <<>>
    ELSE queues[Head(ord)] \o InOrder(queues, Tail(ord))

\* The queues once system sys has queued its commands.
Queue(sys, commands) == Put(queued, sys, commands)

\* The collision events the physics step can report for the sensor: a contact
\* starts with an entity that has a collider and is not touched, and stops
\* with one that is touched; the sensor is either entity of the pair.
CollisionEvents(w) ==
    {[kind |-> "Started", e1 |-> pair[1], e2 |-> pair[2], distance |-> d] :
        pair \in {<<GrabSensor, x>> : x \in {y \in Items \cup {Wall} :
                      ~w.contact[y] /\ (y \in Items => w.item[y].Collider)}}
                 \cup {<<x, GrabSensor>> : x \in {y \in Items \cup {Wall} :
                      ~w.contact[y] /\ (y \in Items => w.item[y].Collider)}},
        d \in 1..MaxDistance}
    \cup
    {[kind |-> "Stopped", e1 |-> pair[1], e2 |-> pair[2], distance |-> 0] :
        pair \in {<<GrabSensor, x>> : x \in {y \in Items \cup {Wall} : w.contact[y]}}
                 \cup {<<x, GrabSensor>> : x \in {y \in Items \cup {Wall} : w.contact[y]}}}

Other(ev) == IF ev.e1 = GrabSensor THEN ev.e2 ELSE ev.e1

\* The batches of at most MaxEvents events, one event at most for an entity.
EventBatches(w) ==
    {batch \in UNION {[1..k -> CollisionEvents(w)] : k \in 0..MaxEvents} :
        \A j, k \in 1..Len(batch) : j # k => Other(batch[j]) # Other(batch[k])}

\* The contacts of the sensor after the events of a batch; an item whose
\* collider was removed is not touched any more.
Contacts(w, batch) ==
    [x \in Items \cup {Wall} |->
        IF \E k \in 1..Len(batch) : Other(batch[k]) = x
        THEN ~w.contact[x]
        ELSE w.contact[x] /\ (x \in Items => w.item[x].Collider)]

\* What the systems of this section leave alone.
grabFixed == <<jvars, grounded, linvel, facing, touching, jumpPressed, tick, seen, player,
               cmds, friction, gravity, momentum, moved, drift, airPress, dt, camera,
               shot, speed, since, moving, force, pairs, player_ideas, crafted, build>>

GrabInit ==
    /\ MovementIdle
    /\ OthersInit
    /\ dt = 1
    /\ todo = GrabSystems

DetectItems ==
    /\ GrabMayRun("detect_items")
    /\ items_in_range' = detect_items(items_in_range, world, world.events)
    /\ world' = [world EXCEPT !.recorded = RecordedAfter(world.recorded, world, world.events),
                              !.events = <<>>]
    /\ queued' = Queue("detect_items", <<>>)
    /\ todo' = todo \ {"detect_items"}
    /\ UNCHANGED <<grabFixed, grabPressed>>

GrabItem ==
    /\ GrabMayRun("grab_item")
    /\ LET g == grab_item(items_in_range, world, grabPressed)
       IN  /\ items_in_range' = g.r
           /\ world' = [g.w EXCEPT !.recorded =
                           [e \in Items |-> IF e \in DOMAIN g.r.items THEN @[e] ELSE 0]]
           /\ queued' = Queue("grab_item", g.cmds)
    /\ todo' = todo \ {"grab_item"}
    /\ UNCHANGED <<grabFixed, grabPressed>>

ThrowItem ==
    /\ GrabMayRun("throw_item")
    /\ queued' = Queue("throw_item", throw_item(world, grabPressed))
    /\ todo' = todo \ {"throw_item"}
    /\ UNCHANGED <<grabFixed, grabPressed, items_in_range, world>>

HandleThrownMomentum ==
    /\ GrabMayRun("handle_thrown_momentum")
    /\ LET h == handle_thrown_momentum(world)
       IN  /\ world' = h.w
           /\ queued' = Queue("handle_thrown_momentum", h.cmds)
    /\ todo' = todo \ {"handle_thrown_momentum"}
    /\ UNCHANGED <<grabFixed, grabPressed, items_in_range>>

\* The end of the tick: the queued commands are applied, the physics step
\* reports the collision events of the next tick and the input is read.
GrabEndTick ==
    /\ todo = {}
    /\ \E ord \in GrabOrders :
          LET w == ApplyCommands(world, InOrder(queued, ord))
          IN  \E batch \in EventBatches(w) :
                 world' = [w EXCEPT !.events = batch, !.contact = Contacts(w, batch)]
    /\ grabPressed' \in BOOLEAN
    /\ queued' = <<>>
    /\ todo' = GrabSystems
    /\ UNCHANGED <<grabFixed, items_in_range>>

\* An item that the player does not carry leaves the item query between two
\* ticks (its Item component is removed by code outside this file).
ItemLeavesQuery ==
    /\ todo = GrabSystems
    /\ \E e \in Items :
          /\ world.item[e].Item
          /\ ~world.item[e].parent
          /\ world' = [world EXCEPT !.item[e].Item = FALSE]
    /\ UNCHANGED <<grabFixed, grabPressed, queued, todo, items_in_range>>

GrabNext ==
    \/ DetectItems
    \/ GrabItem
    \/ ThrowItem
    \/ HandleThrownMomentum
    \/ GrabEndTick

SpecGrab == GrabInit /\ [][GrabNext]_vars

\* The same with items that leave the item query.
StaleNext ==
    \/ DetectItems
    \/ GrabItem
    \/ ThrowItem
    \/ HandleThrownMomentum
    \/ GrabEndTick
    \/ ItemLeavesQuery

SpecStale == GrabInit /\ [][StaleNext]_vars

\* C31: when Grab is pressed and the closest item in range is not found in
\* the item query, grab_item queues no insertion on the player: the player
\* gains neither a HeldItem nor a weight marker.
C31_StaleGrabIsNoOp ==
    [][(/\ Runs("grab_item")
        /\ grabPressed
        /\ get_closest(items_in_range).ret # None
        /\ ~item_query_contains(world, get_closest(items_in_range).ret[1][1]))
       => \A k \in 1..Len(queued'["grab_item"]) :
             ~(queued'["grab_item"][k].entity = Player
               /\ queued'["grab_item"][k].op = "insert")]_vars

\* C37: whenever the items map is not empty, get_closest returns an item of
\* the map, the one with the smallest recorded distance, and closest_item
\* never names an entity that is not in the map (removed or taken).
C37_ClosestIsNearestOfMap ==
    /\ items_in_range.closest_item # None =>
          items_in_range.closest_item[1][1] \in DOMAIN items_in_range.items
    /\ ~is_empty(items_in_range) =>
          LET got == get_closest(items_in_range)
          IN  /\ got.ret # None
              /\ got.ret[1][1] \in DOMAIN items_in_range.items
              /\ \A e \in DOMAIN items_in_range.items :
                    world.recorded[got.ret[1][1]] <= world.recorded[e]

\* C38: a Grab press in a tick that the player starts with a HeldItem only
\* throws the held item, in every order of the systems and of their command
\* queues: grab_item queues nothing, and once the commands are applied the
\* player has no HeldItem and no child, and the item has no parent and has a
\* rigid body.
C38_GrabWhileHoldingOnlyThrows ==
    [][(todo = {} /\ grabPressed /\ world.player.HeldItem # None) =>
          /\ queued["grab_item"] = <<>>
          /\ world'.player.HeldItem = None
          /\ world'.player.children = {}
          /\ ~world'.item[world.player.HeldItem[1]].parent
          /\ world'.item[world.player.HeldItem[1]].RigidBody]_vars

\* C38 happens: an item was thrown in the last tick while another item was in
\* the map, and the player holds nothing.
C38_Witness ==
    /\ todo = GrabSystems
    /\ ~is_empty(items_in_range)
    /\ world.player.HeldItem = None
    /\ world.player.children = {}
    /\ \E e \in Items :
          /\ world.item[e].ThrownItem
          /\ world.item[e].RigidBody
          /\ ~world.item[e].parent

=============================================================================
